---- MODULE Spec2Model ----
(***************************************************************************)
(* A model of jsongrep: the Sortable-Value order (compare/value.rs), the   *)
(* ordering engine (compare/sort.rs, sort.rs) and the condition / query    *)
(* evaluator (eval/*.rs, query.rs).                                        *)
(*                                                                         *)
(* Representation.  Every JSON value and every Scalar Value is a record    *)
(* [t |-> variant, p |-> payload] whose payload is a sequence of integers: *)
(*   - a string is the sequence of its bytes (a = 1, b = 2, ^ = 3, ( = 4); *)
(*   - a bool is <<0>> or <<1>>;                                           *)
(*   - an f64 is <<s, hi, lo, e>> and stands for                           *)
(*         s * (hi * 2^31 + lo + e * f64::EPSILON),  s \in {1, -1},        *)
(*     which is exact for the values used here (e > 0 only with hi = 0 and *)
(*     lo <= 1, where the f64 grid is at least as fine as EPSILON);        *)
(*   - a serde_json Number is <<k>> \o f64 with k = 0 for an integer       *)
(*     literal (N::PosInt / N::NegInt) and k = 1 for N::Float;             *)
(*   - an i32 is <<n>>.                                                    *)
(* A document is a function from the JSON pointers of interest to the JSON *)
(* value found there, or to Absent when Value::pointer returns None.       *)
(***************************************************************************)
EXTENDS Integers, Sequences, FiniteSets, TLC

(***************************************************************************)
(* Bounds of the model.                                                    *)
(***************************************************************************)
MaxDocs == 4
MaxCriteria == 2
MaxChildren == 2
MaxCalls == 2
MaxLines == 3
MaxTests == 3
NumThreads == 2

(***************************************************************************)
(* Program constants.  Epsilon is f64::EPSILON in units of itself; I32Max  *)
(* is i32::MAX = 2^31 - 1, the limit of the "as i32" casts.                *)
(***************************************************************************)
Epsilon == 1
I32Max == 2147483647

VARIABLES
    cmpA, cmpB,        \* the two PairValues handed to PairValue::cmp / eq
    cmpOrd, cmpEq,     \* what cmp and eq returned ("none" before the call)
    settings,          \* PairsListBuilder.settings / PairsList.settings
    list,              \* PairsListBuilder.list / PairsList.list
    added,             \* the documents handed to add(), in call order
    phase,             \* "builder" (Sort holds its builder) | "sorted"
    trail,             \* the list as built and after each pass of sort()
    evalLevel,         \* "cond": a Condition is evaluated | "query": a Query
    evalCond,          \* the Condition evaluated
    evalValue,         \* the Scalar Value it is evaluated on
    evalQuery,         \* the QueryCondition of the Query evaluated
    evalDoc,           \* the document it is evaluated on
    evalCalls,         \* the number of calls of eval so far
    evalCache,         \* REGEX_CACHE as the last call of eval found it
    evalRes,           \* what the last call of eval returned
    evalTrace,         \* the nodes whose eval the last call entered, in order
    cache,             \* REGEX_CACHE
    pc,                \* where main() is: "validate", "get_selector",
                       \* "get_sort", "loop", "done" | "panicked"
    opt,               \* the parsed command line (Opt)
    selector,          \* q of main(): the select::Query
    sorter,            \* s of main(): "None", "Some" (the Sort of its
                       \* builder is settings and list) | "Moved"
    use_sort,          \* use_sort of main()
    lines,             \* lines of main(): the lines kept for the sorter
    lineCount,         \* the number of lines stdin has yielded
    stdout,            \* the lines printed
    stderr,            \* the diagnostics printed: line number and error
    panic,             \* the error of the unwrap() that ended the process
    curLine,           \* line of the last turn of the loop
    selected,          \* what q.select(&line) returned in that turn
    selTrace,          \* the query nodes whose eval that select entered
    regexCalls,        \* the number of calls of Matcher::test so far
    compiles,          \* for each pattern, the number of calls of Regex::new
    lastKind,          \* the last call of Matcher::test: "Raw" | "Regex",
    lastPattern,       \* its pattern,
    lastValue,         \* its text,
    lastRes,           \* what it returned,
    lastCache,         \* and REGEX_CACHE as it found it
    mutex,             \* the Mutex of REGEX_CACHE: 0, or the thread holding it
    tpc,               \* where each thread is in _test_regex
    job,               \* the pattern and the text of each thread
    local,             \* x of each thread: the Regex it compiled
    tres,              \* what _test_regex returns to each thread
    numLit,            \* a JSON number literal
    numDoc,            \* the Value to_value makes of it in a document
    numConst           \* the Value Value::from makes of it in a raw query

cmpVars == <<cmpA, cmpB, cmpOrd, cmpEq>>
sortVars == <<settings, list, added, phase, trail>>
evalVars == <<evalLevel, evalCond, evalValue, evalQuery, evalDoc, evalCalls,
              evalCache, evalRes, evalTrace, cache>>
mainVars == <<pc, opt, selector, sorter, use_sort, lines, lineCount, stdout,
              stderr, panic, curLine, selected, selTrace>>
evalRest == <<evalLevel, evalCond, evalValue, evalQuery, evalDoc, evalCalls,
              evalCache, evalRes, evalTrace>>
regexRest == <<regexCalls, lastKind, lastPattern, lastValue, lastRes, lastCache>>
regexVars == <<regexRest, compiles>>
lockVars == <<mutex, tpc, job, local, tres>>
numVars == <<numLit, numDoc, numConst>>
vars == <<cmpVars, sortVars, evalVars, mainVars, regexVars, lockVars, numVars>>

(***************************************************************************)
(* JSON values (serde_json::Value).                                        *)
(***************************************************************************)
Absent == [t |-> "absent", p |-> <<>>]
JNull == [t |-> "null", p |-> <<>>]
JBool(b) == [t |-> "bool", p |-> <<IF b THEN 1 ELSE 0>>]
JInt(s, hi, lo) == [t |-> "number", p |-> <<0, s, hi, lo, 0>>]
JFloat(s, hi, lo, e) == [t |-> "number", p |-> <<1, s, hi, lo, e>>]
JString(str) == [t |-> "string", p |-> str]
JArray(content) == [t |-> "array", p |-> content]
JObject(content) == [t |-> "object", p |-> content]

\* Number::as_f64: an integer literal below 2^53 converts exactly.
AsF64(v) == <<v.p[2], v.p[3], v.p[4], v.p[5]>>

Abs(n) == IF n < 0 THEN -n ELSE n

\* The magnitude order of two f64: hi, then lo, then e.
MagLt(x, y) ==
    \/ x[2] < y[2]
    \/ x[2] = y[2] /\ x[3] < y[3]
    \/ x[2] = y[2] /\ x[3] = y[3] /\ x[4] < y[4]

\* x < y on f64.
F64Lt(x, y) ==
    IF x[1] # y[1] THEN x[1] < y[1]
    ELSE IF x[1] = 1 THEN MagLt(x, y) ELSE MagLt(y, x)

\* (x - y).abs() <= f64::EPSILON
F64SubAbsLeEps(x, y) ==
    IF x[1] = y[1]
    THEN x[2] = y[2] /\ x[3] = y[3] /\ Abs(x[4] - y[4]) <= Epsilon
    ELSE x[2] = 0 /\ x[3] = 0 /\ y[2] = 0 /\ y[3] = 0 /\ x[4] + y[4] <= Epsilon

\* String::cmp: byte-wise lexicographic.
RECURSIVE StrCmp(_, _)
StrCmp(x, y) ==
    IF x = <<>> /\ y = <<>> THEN "Equal"
    ELSE IF x = <<>> THEN "Less"
    ELSE IF y = <<>> THEN "Greater"
    ELSE IF Head(x) < Head(y) THEN "Less"
    ELSE IF Head(x) > Head(y) THEN "Greater"
    ELSE StrCmp(Tail(x), Tail(y))

(***************************************************************************)
(* compare/value.rs: PairValue.                                            *)
(***************************************************************************)
\* PairEq with arrays and objects compared by their contents.
PairEqByContent(a, b) ==
    CASE a.t = "null" /\ b.t = "null" -> TRUE
      [] a.t = "array" /\ b.t = "array" -> a.p = b.p
      [] a.t = "object" /\ b.t = "object" -> a.p = b.p
      [] a.t = "bool" /\ b.t = "bool" -> a.p = b.p
      [] a.t = "number" /\ b.t = "number" -> F64SubAbsLeEps(AsF64(a), AsF64(b))
      [] a.t = "string" /\ b.t = "string" -> StrCmp(a.p, b.p) = "Equal"
      [] OTHER -> FALSE

\* impl PartialEq for PairValue
PairEq(a, b) ==
    CASE a.t = "null" /\ b.t = "null" -> TRUE
      [] a.t = "array" /\ b.t = "array" -> TRUE
      [] a.t = "object" /\ b.t = "object" -> TRUE
      [] a.t = "bool" /\ b.t = "bool" -> a.p = b.p
      [] a.t = "number" /\ b.t = "number" -> F64SubAbsLeEps(AsF64(a), AsF64(b))
      [] a.t = "string" /\ b.t = "string" -> StrCmp(a.p, b.p) = "Equal"
      [] OTHER -> FALSE

\* impl PartialOrd for PairValue (partial_cmp always returns Some), and
\* impl Ord for PairValue, which unwraps it.  The match arms are tried in
\* the order of the source.
PairCmp(a, b) ==
    IF PairEq(a, b) THEN "Equal"
    ELSE CASE a.t = "null" -> "Less"
           [] a.t = "array" -> IF b.t = "null" THEN "Greater" ELSE "Less"
           [] a.t = "object" ->
                IF b.t \in {"null", "array"} THEN "Greater" ELSE "Less"
           [] a.t = "bool" ->
                IF b.t \in {"null", "array", "object"} THEN "Greater"
                ELSE IF b.t = "bool" /\ a.p = <<0>> /\ b.p = <<1>> THEN "Less"
                ELSE IF b.t = "bool" /\ a.p = <<1>> /\ b.p = <<0>> THEN "Greater"
                ELSE "Less"
           [] a.t = "number" ->
                IF b.t \in {"null", "array", "object", "bool"} THEN "Greater"
                ELSE IF b.t = "number"
                THEN (IF F64Lt(AsF64(a), AsF64(b)) THEN "Less" ELSE "Greater")
                ELSE "Less"
           [] a.t = "string" ->
                IF b.t = "string" THEN StrCmp(a.p, b.p) ELSE "Greater"

(***************************************************************************)
(* Inputs of the ordering engine.                                          *)
(***************************************************************************)
Pointers == {"/i", "/j"}
Doc(i, j) == [ptr \in Pointers |-> IF ptr = "/i" THEN i ELSE j]

\* Value::pointer
Pointer(doc, ptr) == doc[ptr]

N0 == JInt(1, 0, 0)
N1 == JInt(1, 0, 1)
Eps1 == JFloat(1, 0, 0, 1)
Eps2 == JFloat(1, 0, 0, 2)

\* The documents of one run come from one of two pools:
\*   {"i":0,"j":1} {"i":1,"j":1} {"i":1,"j":0} {"i":0,"j":0}
\*   {"i":"a","j":0} {"i":null,"j":2.220446049250313e-16}
\*   {"j":4.440892098500626e-16}
\* or are the four records of the example of sort.rs:
\*   {"i":10} {"i":5} {"i":20} {"i":0}
DocPools ==
    { { Doc(N0, N1), Doc(N1, N1), Doc(N1, N0), Doc(N0, N0) },
      { Doc(JString(<<1>>), N0), Doc(JNull, Eps1), Doc(Absent, Eps2) },
      { Doc(JInt(1, 0, 10), Absent), Doc(JInt(1, 0, 5), Absent),
        Doc(JInt(1, 0, 20), Absent), Doc(N0, Absent) } }
SortDocs == UNION DocPools
OnePool(docs) == \E pool \in DocPools : \A k \in 1..Len(docs) : docs[k] \in pool

\* raw_sort::SortPair: a pointer and an optional order.
RawOrders == {"none", "asc", "desc"}
RawSortPairs == [pointer : Pointers, order : RawOrders]
RawSorts == UNION {[1..n -> RawSortPairs] : n \in 0..MaxCriteria}

(***************************************************************************)
(* sort.rs, compare/sort.rs: the ordering engine.                          *)
(***************************************************************************)
\* impl From<RawSort> for Sort: p.order.unwrap_or(Order::Asc), one
\* PairSetting per SortPair, then PairsListBuilder::from.
SortFrom(raw) ==
    [k \in 1..Len(raw) |->
        [pointer |-> raw[k].pointer,
         order |-> IF raw[k].order = "desc" THEN "Desc" ELSE "Asc"]]

\* PairKey without the map_or_else default.
PairKeyNoDefault(doc, setting) == Pointer(doc, setting.pointer)

\* The closure of PairsListBuilder::add: an unresolved pointer reads as null.
PairKey(doc, setting) ==
    LET x == Pointer(doc, setting.pointer)
    IN IF x = Absent THEN JNull ELSE x

\* add giving every record the index 0.
NewPairsIndexZero(b_settings, b_list, doc) ==
    [index |-> 0,
     pairs |-> [k \in 1..Len(b_settings) |-> PairKey(doc, b_settings[k])]]

\* The Pairs that PairsListBuilder::add pushes.
NewPairs(b_settings, b_list, doc) ==
    [index |-> Len(b_list),
     pairs |-> [k \in 1..Len(b_settings) |-> PairKey(doc, b_settings[k])]]

\* The closure read as is_less also when it returned Ordering::Equal.
IsLessOrEqual(a, b, index, order) ==
    IF order = "Asc"
    THEN PairCmp(a.pairs[index], b.pairs[index]) # "Greater"
    ELSE PairCmp(b.pairs[index], a.pairs[index]) # "Greater"

\* The comparator closure of PairsList::sort_by for criterion number index
\* (from 1 here), read as is_less: the closure returned Ordering::Less.
IsLess(a, b, index, order) ==
    IF order = "Asc"
    THEN PairCmp(a.pairs[index], b.pairs[index]) = "Less"
    ELSE PairCmp(b.pairs[index], a.pairs[index]) = "Less"

InsertAt(s, x, j) == SubSeq(s, 1, j) \o <<x>> \o SubSeq(s, j + 1, Len(s))

\* slice::sort_by on a slice of at most 20 elements is an insertion sort.
\* Current std shifts each element left past the elements it is less than
\* (insertion_sort_shift_left) ...
RECURSIVE ShiftLeftPos(_, _, _, _, _)
ShiftLeftPos(s, x, j, index, order) ==
    IF j >= 1 /\ IsLess(x, s[j], index, order)
    THEN ShiftLeftPos(s, x, j - 1, index, order)
    ELSE j

RECURSIVE ShiftLeftSort(_, _, _, _)
ShiftLeftSort(v, k, index, order) ==
    IF k > Len(v) THEN v
    ELSE LET pre == SubSeq(v, 1, k - 1)
             j == ShiftLeftPos(pre, v[k], k - 1, index, order)
         IN ShiftLeftSort(InsertAt(pre, v[k], j) \o SubSeq(v, k + 1, Len(v)),
                          k + 1, index, order)

\* ... and std before 1.81 inserts each element, from the last but one down
\* to the first, into the sorted tail to its right, past the elements that
\* are less than it (insert_head).
RECURSIVE InsertHeadPos(_, _, _, _, _)
InsertHeadPos(s, x, j, index, order) ==
    IF j < Len(s) /\ IsLess(s[j + 1], x, index, order)
    THEN InsertHeadPos(s, x, j + 1, index, order)
    ELSE j

RECURSIVE InsertHeadSort(_, _, _, _)
InsertHeadSort(v, k, index, order) ==
    IF k < 1 THEN v
    ELSE LET post == SubSeq(v, k + 1, Len(v))
             j == InsertHeadPos(post, v[k], 0, index, order)
         IN InsertHeadSort(SubSeq(v, 1, k - 1) \o InsertAt(post, v[k], j),
                           k - 1, index, order)

SortAlgorithms == {"insertion_sort_shift_left", "insert_head"}

\* self.list.sort_by(...) of PairsList::sort_by, as std version alg runs it.
StableSortBy(v, index, order, alg) ==
    IF alg = "insertion_sort_shift_left"
    THEN ShiftLeftSort(v, 2, index, order)
    ELSE InsertHeadSort(v, Len(v) - 1, index, order)

\* PairsList::sort_by(index), index from 1.
SortBy(s_list, s_settings, index, alg) ==
    StableSortBy(s_list, index, s_settings[index].order, alg)

\* The loop of PairsList::sort from criterion i on: acc holds the list as it
\* was before the loop and after each pass so far.
RECURSIVE SortLoop(_, _, _, _)
SortLoop(acc, s_settings, i, alg) ==
    IF i > Len(s_settings) THEN acc
    ELSE SortLoop(Append(acc, SortBy(acc[Len(acc)], s_settings, i, alg)),
                  s_settings, i + 1, alg)

\* PairsList::indexes
Indexes(s_list) == [k \in 1..Len(s_list) |-> s_list[k].index]

(***************************************************************************)
(* query.rs: Scalar Values, conditions, query conditions; error.rs.        *)
(***************************************************************************)
SNull == [t |-> "Null", p |-> <<>>]
SBool(b) == [t |-> "Bool", p |-> <<IF b THEN 1 ELSE 0>>]
SInt(n) == [t |-> "Int", p |-> <<n>>]
SFloat(f) == [t |-> "Float", p |-> f]
SString(str) == [t |-> "String", p |-> str]
NoScalar == [t |-> "", p |-> <<>>]

\* v as i32 for an integral f64 v: the cast saturates.
SaturateI32(f) ==
    IF f[2] >= 1 THEN (IF f[1] = 1 THEN I32Max ELSE -I32Max - 1)
    ELSE f[1] * f[3]

\* n as i32 for the i64 n = s * (hi * 2^31 + lo): the cast keeps the low 32
\* bits.
WrapI32(s, hi, lo) ==
    IF s = 1 THEN (IF hi % 2 = 1 THEN lo - I32Max - 1 ELSE lo)
    ELSE IF hi % 2 = 0 THEN -lo
    ELSE IF lo = 0 THEN -I32Max - 1
    ELSE (I32Max - lo) + 1

\* impl From<raw::Value> for Value; a raw number is an f64, and
\* value.ceil() - value == 0.0 exactly when it has no fraction.
ValueFrom(raw) ==
    CASE raw.t = "null" -> SNull
      [] raw.t = "bool" -> [t |-> "Bool", p |-> raw.p]
      [] raw.t = "number" ->
            IF raw.p[4] = 0 THEN SInt(SaturateI32(raw.p)) ELSE SFloat(raw.p)
      [] raw.t = "string" -> SString(raw.p)

\* Condition, as a record of one shape: v and m are read by the leaves,
\* kids by Not (one child), And and Or.
Equal(v) == [op |-> "Equal", v |-> v, m |-> "", kids |-> <<>>]
GreaterThan(v) == [op |-> "GreaterThan", v |-> v, m |-> "", kids |-> <<>>]
LessThan(v) == [op |-> "LessThan", v |-> v, m |-> "", kids |-> <<>>]
Match(v, mtype) == [op |-> "Match", v |-> v, m |-> mtype, kids |-> <<>>]
Not(c) == [op |-> "Not", v |-> NoScalar, m |-> "", kids |-> <<c>>]
And(cs) == [op |-> "And", v |-> NoScalar, m |-> "", kids |-> cs]
Or(cs) == [op |-> "Or", v |-> NoScalar, m |-> "", kids |-> cs]
NoCondition == [op |-> "", v |-> NoScalar, m |-> "", kids |-> <<>>]

\* QueryCondition, likewise; Raw holds a QueryPair (pointer, condition).
Raw(ptr, c) == [op |-> "Raw", pointer |-> ptr, condition |-> c, kids |-> <<>>]
QNot(q) == [op |-> "Not", pointer |-> "", condition |-> NoCondition, kids |-> <<q>>]
QAnd(qs) == [op |-> "And", pointer |-> "", condition |-> NoCondition, kids |-> qs]
QOr(qs) == [op |-> "Or", pointer |-> "", condition |-> NoCondition, kids |-> qs]
NoQuery == [op |-> "", pointer |-> "", condition |-> NoCondition, kids |-> <<>>]

\* util::type_name of the references the evaluator passes.
ValueTypeName == "&jsongrep::query::Value"
ConditionTypeName == "&jsongrep::query::Condition"
QueryConditionTypeName == "&jsongrep::query::QueryCondition"

\* impl fmt::Display for Value: the name of the variant and, for all but
\* Null, the payload in parentheses.
Display(v) == [variant |-> v.t, payload |-> v.p]
NoText == [variant |-> "", payload |-> <<>>]

\* format!("{}", v) of a document: its compact JSON text, which names the
\* document; the model keeps the document for it.
ToJsonText(doc) == doc

\* error::Error, as a record of one shape; an ErrorCode reads its own fields.
MkError(code) ==
    [code |-> code, by |-> "", want |-> "", got |-> NoText, mtype |-> "",
     mvalue |-> NoText, target |-> NoText, pointer |-> "", value |-> <<>>,
     pattern |-> <<>>]
NoError == MkError("")
Unreachable == MkError("Unreachable")
TypeMismatch(l, r) ==
    [MkError("TypeMismatch") EXCEPT !.want = ValueTypeName, !.got = Display(r),
                                    !.by = ConditionTypeName]
MatcherTypeMismatch(l, t, r) ==
    [MkError("MatcherTypeMismatch") EXCEPT !.mtype = t, !.mvalue = Display(l),
                                           !.target = Display(r),
                                           !.by = ConditionTypeName]
NoChildren(by) == [MkError("NoChildren") EXCEPT !.by = by]
InvalidRegex(pattern) == [MkError("InvalidRegex") EXCEPT !.pattern = pattern]
InvalidPointer(ptr, doc) ==
    [MkError("InvalidPointer") EXCEPT !.pointer = ptr, !.value = <<ToJsonText(doc)>>]
InvalidTarget(ptr, doc) ==
    [MkError("InvalidTarget") EXCEPT !.pointer = ptr, !.value = <<ToJsonText(doc)>>]

\* Result<bool>
Ok(b) == [ok |-> TRUE, val |-> b, err |-> NoError]
Err(e) == [ok |-> FALSE, val |-> FALSE, err |-> e]
\* Result<Value>
OkValue(v) == [ok |-> TRUE, val |-> v, err |-> NoError]
ErrValue(e) == [ok |-> FALSE, val |-> NoScalar, err |-> e]

(***************************************************************************)
(* eval/matcher.rs.  A pattern text is a sequence of the bytes a, b, ^ and *)
(* (; Regex::new rejects an unclosed group and compiles the rest: a and b  *)
(* match themselves, ^ matches at the start of the text only.              *)
(***************************************************************************)
Caret == 3
OpenParen == 4

\* str::contains
Contains(text, l) ==
    \E i \in 0..(Len(text) - Len(l)) : SubSeq(text, i + 1, i + Len(l)) = l

\* Regex::new(pattern).is_ok()
RegexValid(pattern) == \A k \in 1..Len(pattern) : pattern[k] # OpenParen

\* Regex::new(pattern).unwrap()
Compile(pattern) == [program |-> pattern]

RECURSIVE MatchHere(_, _, _)
MatchHere(program, text, pos) ==
    IF program = <<>> THEN TRUE
    ELSE IF Head(program) = Caret
    THEN pos = 0 /\ MatchHere(Tail(program), text, pos)
    ELSE /\ pos < Len(text)
         /\ text[pos + 1] = Head(program)
         /\ MatchHere(Tail(program), text, pos + 1)

\* Regex::is_match
IsMatch(regex, text) == \E pos \in 0..Len(text) : MatchHere(regex.program, text, pos)

\* test_raw with the two texts exchanged.
TestRawReversed(l, value) == Ok(Contains(l, value))

\* Matcher::test_raw
TestRaw(l, value) == Ok(Contains(value, l))

\* _test_regex without the insert.
TestRegexNoInsert(l_cache, pattern, value) ==
    IF pattern \in DOMAIN l_cache
    THEN [res |-> Ok(IsMatch(l_cache[pattern], value)), cache |-> l_cache]
    ELSE IF ~RegexValid(pattern)
    THEN [res |-> Err(InvalidRegex(pattern)), cache |-> l_cache]
    ELSE [res |-> Ok(IsMatch(Compile(pattern), value)), cache |-> l_cache]

\* Matcher::_test_regex under the lock of REGEX_CACHE: the result and the
\* cache it leaves.
TestRegex(l_cache, pattern, value) ==
    IF pattern \in DOMAIN l_cache
    THEN [res |-> Ok(IsMatch(l_cache[pattern], value)), cache |-> l_cache]
    ELSE IF ~RegexValid(pattern)
    THEN [res |-> Err(InvalidRegex(pattern)), cache |-> l_cache]
    ELSE LET x == Compile(pattern)
         IN [res |-> Ok(IsMatch(x, value)),
             cache |-> [q \in DOMAIN l_cache \cup {pattern} |->
                           IF q = pattern THEN x ELSE l_cache[q]]]

(***************************************************************************)
(* eval/cond.rs.  An evaluation carries st = [cache, trace]: the regex     *)
(* cache, and the nodes whose eval was entered, each named by its path     *)
(* from the root (child numbers; 0 leads from a Raw leaf to its            *)
(* condition).  It returns [res, st].                                      *)
(***************************************************************************)
RECURSIVE CondEval(_, _, _, _)
RECURSIVE CondAnd(_, _, _, _)
RECURSIVE CondOr(_, _, _, _)
RECURSIVE CondAndLoop(_, _, _, _, _)
RECURSIVE CondOrLoop(_, _, _, _, _)

\* Condition::test
CondTest(c, r, st) ==
    IF c.op = "Match"
    THEN IF c.v.t = "String" /\ r.t = "String"
         THEN IF c.m = "Contain"
              THEN [res |-> TestRaw(c.v.p, r.p), st |-> st]
              ELSE LET x == TestRegex(st.cache, c.v.p, r.p)
                   IN [res |-> x.res, st |-> [st EXCEPT !.cache = x.cache]]
         ELSE [res |-> Err(MatcherTypeMismatch(c.v, c.m, r)), st |-> st]
    ELSE [res |-> Err(Unreachable), st |-> st]

\* (x.abs() - y.abs()).abs() <= f64::EPSILON
F64AbsSubAbsLeEps(x, y) ==
    x[2] = y[2] /\ x[3] = y[3] /\ Abs(x[4] - y[4]) <= Epsilon

\* equal with false for two values of different variants.
CondEqualLoose(c, r) ==
    IF c.v.t = r.t THEN Ok(c.v.p = r.p) ELSE Ok(FALSE)

\* Condition::equal
CondEqual(c, r) ==
    IF c.op = "Equal"
    THEN CASE c.v.t = "Null" /\ r.t = "Null" -> Ok(TRUE)
           [] c.v.t = "Bool" /\ r.t = "Bool" -> Ok(c.v.p = r.p)
           [] c.v.t = "Int" /\ r.t = "Int" -> Ok(c.v.p[1] = r.p[1])
           [] c.v.t = "Float" /\ r.t = "Float" -> Ok(F64AbsSubAbsLeEps(c.v.p, r.p))
           [] c.v.t = "String" /\ r.t = "String" -> Ok(c.v.p = r.p)
           [] OTHER -> Err(TypeMismatch(c.v, r))
    ELSE Err(Unreachable)

\* Condition::greater_than
CondGreaterThan(c, r) ==
    IF c.op = "GreaterThan"
    THEN CASE c.v.t = "Bool" /\ r.t = "Bool" -> Ok(c.v.p = <<0>> /\ r.p = <<1>>)
           [] c.v.t = "Int" /\ r.t = "Int" -> Ok(c.v.p[1] < r.p[1])
           [] c.v.t = "Float" /\ r.t = "Float" -> Ok(F64Lt(c.v.p, r.p))
           [] c.v.t = "String" /\ r.t = "String" -> Ok(StrCmp(c.v.p, r.p) = "Less")
           [] OTHER -> Err(TypeMismatch(c.v, r))
    ELSE Err(Unreachable)

\* less_than with >= for >.
CondLessThanOrEqual(c, r) ==
    CASE c.v.t = "Bool" /\ r.t = "Bool" -> Ok(c.v.p[1] >= r.p[1])
      [] c.v.t = "Int" /\ r.t = "Int" -> Ok(c.v.p[1] >= r.p[1])
      [] c.v.t = "Float" /\ r.t = "Float" -> Ok(~F64Lt(c.v.p, r.p))
      [] c.v.t = "String" /\ r.t = "String" -> Ok(StrCmp(c.v.p, r.p) # "Less")
      [] OTHER -> Err(TypeMismatch(c.v, r))

\* Condition::less_than
CondLessThan(c, r) ==
    IF c.op = "LessThan"
    THEN CASE c.v.t = "Bool" /\ r.t = "Bool" -> Ok(c.v.p = <<1>> /\ r.p = <<0>>)
           [] c.v.t = "Int" /\ r.t = "Int" -> Ok(c.v.p[1] > r.p[1])
           [] c.v.t = "Float" /\ r.t = "Float" -> Ok(F64Lt(r.p, c.v.p))
           [] c.v.t = "String" /\ r.t = "String" -> Ok(StrCmp(c.v.p, r.p) = "Greater")
           [] OTHER -> Err(TypeMismatch(c.v, r))
    ELSE Err(Unreachable)

\* map(|x| !x) that makes true of an error.
MapNotOfError(res) == IF res.ok THEN Ok(~res.val) ELSE Ok(TRUE)

\* Result::map(|x| !x)
MapNot(res) == IF res.ok THEN Ok(~res.val) ELSE res

\* Condition::not
CondNot(c, r, path, st) ==
    IF c.op = "Not"
    THEN LET x == CondEval(c.kids[1], r, Append(path, 1), st)
         IN [res |-> MapNot(x.res), st |-> x.st]
    ELSE [res |-> Err(Unreachable), st |-> st]

\* The loop of and going on after a child that failed.
CondAndLoopSkipErr(kids, r, path, i, st) ==
    IF i > Len(kids) THEN [res |-> Ok(TRUE), st |-> st]
    ELSE LET x == CondEval(kids[i], r, Append(path, i), st)
         IN IF x.res.ok /\ ~x.res.val THEN x
            ELSE CondAndLoop(kids, r, path, i + 1, x.st)

\* The for loop of Condition::and from child i on.
CondAndLoop(kids, r, path, i, st) ==
    IF i > Len(kids) THEN [res |-> Ok(TRUE), st |-> st]
    ELSE LET x == CondEval(kids[i], r, Append(path, i), st)
         IN IF ~x.res.ok \/ ~x.res.val THEN x
            ELSE CondAndLoop(kids, r, path, i + 1, x.st)

\* Condition::and
CondAnd(c, r, path, st) ==
    IF c.op = "And"
    THEN IF c.kids = <<>>
         THEN [res |-> Err(NoChildren(ConditionTypeName)), st |-> st]
         ELSE CondAndLoop(c.kids, r, path, 1, st)
    ELSE [res |-> Err(Unreachable), st |-> st]

\* The for loop of Condition::or from child i on.
CondOrLoop(kids, r, path, i, st) ==
    IF i > Len(kids) THEN [res |-> Ok(FALSE), st |-> st]
    ELSE LET x == CondEval(kids[i], r, Append(path, i), st)
         IN IF ~x.res.ok \/ x.res.val THEN x
            ELSE CondOrLoop(kids, r, path, i + 1, x.st)

\* Condition::or
CondOr(c, r, path, st) ==
    IF c.op = "Or"
    THEN IF c.kids = <<>>
         THEN [res |-> Err(NoChildren(ConditionTypeName)), st |-> st]
         ELSE CondOrLoop(c.kids, r, path, 1, st)
    ELSE [res |-> Err(Unreachable), st |-> st]

\* impl EvaluableCondition for Condition
CondEval(c, r, path, st0) ==
    LET st == [st0 EXCEPT !.trace = Append(@, path)]
    IN CASE c.op = "Equal" -> [res |-> CondEqual(c, r), st |-> st]
         [] c.op = "GreaterThan" -> [res |-> CondGreaterThan(c, r), st |-> st]
         [] c.op = "LessThan" -> [res |-> CondLessThan(c, r), st |-> st]
         [] c.op = "Not" -> CondNot(c, r, path, st)
         [] c.op = "And" -> CondAnd(c, r, path, st)
         [] c.op = "Or" -> CondOr(c, r, path, st)
         [] c.op = "Match" -> CondTest(c, r, st)

(***************************************************************************)
(* eval/query_pair.rs, eval/query_condition.rs, eval/query.rs.             *)
(***************************************************************************)
\* QueryPair::to_value.  Number::is_i64 holds of an integer literal up to
\* i64::MAX, which every integer literal of the model is.
ToValue(ptr, doc) ==
    LET p == Pointer(doc, ptr)
    IN CASE p = Absent -> ErrValue(InvalidPointer(ptr, doc))
         [] p.t = "null" -> OkValue(SNull)
         [] p.t = "bool" -> OkValue([t |-> "Bool", p |-> p.p])
         [] p.t = "number" ->
               IF p.p[1] = 0
               THEN OkValue(SInt(WrapI32(p.p[2], p.p[3], p.p[4])))
               ELSE OkValue(SFloat(AsF64(p)))
         [] p.t = "string" -> OkValue(SString(p.p))
         [] OTHER -> ErrValue(InvalidTarget(ptr, doc))

\* eval with the condition evaluated, on Null, also when the pointer fails.
PairEvalConditionFirst(q, doc, path, st) ==
    LET v == ToValue(q.pointer, doc)
        x == CondEval(q.condition, IF v.ok THEN v.val ELSE SNull, Append(path, 0), st)
    IN IF ~x.res.ok \/ v.ok THEN x ELSE [res |-> Err(v.err), st |-> x.st]

\* impl EvaluableQueryPair for QueryPair
PairEval(q, doc, path, st) ==
    LET v == ToValue(q.pointer, doc)
    IN IF ~v.ok THEN [res |-> Err(v.err), st |-> st]
       ELSE CondEval(q.condition, v.val, Append(path, 0), st)

RECURSIVE QueryConditionEval(_, _, _, _)
RECURSIVE QueryAndLoop(_, _, _, _, _)
RECURSIVE QueryOrLoop(_, _, _, _, _)

\* The for loop of the And arm of QueryCondition::eval from child i on.
QueryAndLoop(kids, doc, path, i, st) ==
    IF i > Len(kids) THEN [res |-> Ok(TRUE), st |-> st]
    ELSE LET x == QueryConditionEval(kids[i], doc, Append(path, i), st)
         IN IF ~x.res.ok \/ ~x.res.val THEN x
            ELSE QueryAndLoop(kids, doc, path, i + 1, x.st)

\* The loop of the Or arm evaluating every child before it decides.
QueryOrLoopEager(kids, doc, path, i, st) ==
    IF i > Len(kids) THEN [res |-> Ok(FALSE), st |-> st]
    ELSE LET x == QueryConditionEval(kids[i], doc, Append(path, i), st)
             rest == QueryOrLoop(kids, doc, path, i + 1, x.st)
         IN IF ~x.res.ok \/ x.res.val THEN [res |-> x.res, st |-> rest.st]
            ELSE rest

\* The for loop of the Or arm of QueryCondition::eval from child i on.
QueryOrLoop(kids, doc, path, i, st) ==
    IF i > Len(kids) THEN [res |-> Ok(FALSE), st |-> st]
    ELSE LET x == QueryConditionEval(kids[i], doc, Append(path, i), st)
         IN IF ~x.res.ok \/ x.res.val THEN x
            ELSE QueryOrLoop(kids, doc, path, i + 1, x.st)

\* The And arm of QueryCondition::eval
QueryAnd(q, doc, path, st) ==
    IF q.kids = <<>>
    THEN [res |-> Err(NoChildren(QueryConditionTypeName)), st |-> st]
    ELSE QueryAndLoop(q.kids, doc, path, 1, st)

\* The Or arm without its test for no children.
QueryOrNoEmptyTest(q, doc, path, st) == QueryOrLoop(q.kids, doc, path, 1, st)

\* The Or arm of QueryCondition::eval
QueryOr(q, doc, path, st) ==
    IF q.kids = <<>>
    THEN [res |-> Err(NoChildren(QueryConditionTypeName)), st |-> st]
    ELSE QueryOrLoop(q.kids, doc, path, 1, st)

\* impl EvaluableQueryCondition for QueryCondition
QueryConditionEval(q, doc, path, st0) ==
    LET st == [st0 EXCEPT !.trace = Append(@, path)]
    IN CASE q.op = "Raw" -> PairEval(q, doc, path, st)
         [] q.op = "Not" ->
               LET x == QueryConditionEval(q.kids[1], doc, Append(path, 1), st)
               IN [res |-> MapNot(x.res), st |-> x.st]
         [] q.op = "And" -> QueryAnd(q, doc, path, st)
         [] q.op = "Or" -> QueryOr(q, doc, path, st)

\* impl EvaluableQuery for Query
QueryEval(q, doc, st) == QueryConditionEval(q, doc, <<>>, st)

(***************************************************************************)
(* The machine of the Sortable-Value order: one call of cmp, one of eq.    *)
(***************************************************************************)
F64s == { <<1, 0, 0, 0>>, <<1, 0, 0, 1>>, <<1, 0, 0, 2>>, <<1, 0, 1, 0>>,
          <<1, 0, 1, 1>>, <<-1, 0, 1, 0>> }

Strings == { <<>>, <<1>>, <<1, 2>>, <<2>> }

PairValues ==
    {JNull, JBool(FALSE), JBool(TRUE), N0, N1, JInt(-1, 0, 1)}
    \cup {JFloat(f[1], f[2], f[3], f[4]) : f \in F64s}
    \cup {JString(str) : str \in Strings}
    \cup {JArray(c) : c \in {<<>>, <<1>>}}
    \cup {JObject(c) : c \in {<<>>, <<1>>}}

CmpIdle ==
    /\ cmpA = JNull /\ cmpB = JNull
    /\ cmpOrd = "none" /\ cmpEq = "none"

CmpInit ==
    /\ cmpA \in PairValues /\ cmpB \in PairValues
    /\ cmpOrd = "none" /\ cmpEq = "none"

\* a.cmp(&b)
CallCmp ==
    /\ cmpOrd = "none"
    /\ cmpOrd' = PairCmp(cmpA, cmpB)
    /\ UNCHANGED <<cmpA, cmpB, cmpEq, sortVars, evalVars, mainVars, regexVars, lockVars, numVars>>

\* a == b
CallEq ==
    /\ cmpEq = "none"
    /\ cmpEq' = IF PairEq(cmpA, cmpB) THEN "true" ELSE "false"
    /\ UNCHANGED <<cmpA, cmpB, cmpOrd, sortVars, evalVars, mainVars, regexVars, lockVars, numVars>>

(***************************************************************************)
(* The machine of the ordering engine: Sort::from, Sort::add any number of *)
(* times, then Sort::sorted_indexes.                                       *)
(***************************************************************************)
SortIdle ==
    /\ settings = <<>> /\ list = <<>> /\ added = <<>>
    /\ phase = "builder" /\ trail = <<>>

SortInit ==
    /\ settings \in {SortFrom(raw) : raw \in RawSorts}
    /\ list = <<>> /\ added = <<>>
    /\ phase = "builder" /\ trail = <<>>

\* Sort::add -> PairsListBuilder::add
Add(doc) ==
    /\ phase = "builder"
    /\ Len(list) < MaxDocs
    /\ OnePool(Append(added, doc))
    /\ list' = Append(list, NewPairs(settings, list, doc))
    /\ added' = Append(added, doc)
    /\ UNCHANGED <<settings, phase, trail, cmpVars, evalVars, mainVars, regexVars, lockVars, numVars>>

\* Sort::sorted_indexes: PairsListBuilder::build, PairsList::sort, and the
\* caller reads PairsList::indexes.  The std version the build links decides
\* which insertion sort runs.
SortedIndexes ==
    /\ phase = "builder"
    /\ \E alg \in SortAlgorithms :
          /\ trail' = SortLoop(<<list>>, settings, 1, alg)
          /\ list' = trail'[Len(trail')]
    /\ phase' = "sorted"
    /\ UNCHANGED <<settings, added, cmpVars, evalVars, mainVars, regexVars, lockVars, numVars>>

(***************************************************************************)
(* The machine of the evaluator: a Condition and a Scalar Value, or a      *)
(* Query and a document, are given; eval is called on them, and may be     *)
(* called again in the same process, where REGEX_CACHE holds what the      *)
(* call before left.                                                       *)
(***************************************************************************)
ScalarStrings == { <<>>, <<1>>, <<1, 2>>, <<2>>, <<Caret, 1>>, <<OpenParen>> }

Scalars ==
    {SNull, SBool(FALSE), SBool(TRUE), SInt(0), SInt(1), SInt(-1),
     SFloat(<<1, 0, 1, 0>>), SFloat(<<1, 0, 1, 1>>), SFloat(<<-1, 0, 1, 0>>)}
    \cup {SString(str) : str \in ScalarStrings}

MatchTypes == {"Contain", "Regex"}

LeafConditions ==
    {Equal(v) : v \in Scalars} \cup {GreaterThan(v) : v \in Scalars}
    \cup {LessThan(v) : v \in Scalars}
    \cup {Match(v, m) : v \in Scalars, m \in MatchTypes}

\* The children of the compound conditions of the model: on some value each
\* of them is true, false, and each kind of error.
CondKids ==
    { Equal(SBool(TRUE)), Equal(SBool(FALSE)), Equal(SNull),
      GreaterThan(SInt(0)), Match(SString(<<1>>), "Regex"),
      Match(SString(<<OpenParen>>), "Regex"), And(<<>>),
      Not(Equal(SBool(TRUE))), Or(<<Equal(SInt(1)), Equal(SNull)>>) }

SeqsUpTo(S, n) == UNION {[1..k -> S] : k \in 0..n}

Conditions ==
    LeafConditions \cup {Not(c) : c \in CondKids}
    \cup {And(cs) : cs \in SeqsUpTo(CondKids, MaxChildren)}
    \cup {Or(cs) : cs \in SeqsUpTo(CondKids, MaxChildren)}

\* The documents of the model:
\*   {"i":true,"j":"ab"}  {"i":null,"j":[1]}  {"i":1,"j":{"a":1}}
\*   {"i":1.0000000000000002}  {"i":2147483653,"j":false}
QueryDocs ==
    { Doc(JBool(TRUE), JString(<<1, 2>>)), Doc(JNull, JArray(<<1>>)),
      Doc(N1, JObject(<<1>>)), Doc(JFloat(1, 0, 1, 1), Absent),
      Doc(JInt(1, 1, 5), JBool(FALSE)) }

RawConditions ==
    LeafConditions \cup {And(<<>>), Not(Equal(SNull)), Or(<<Equal(SInt(1)), Equal(SNull)>>)}

\* The children of the compound query conditions of the model.
QueryKids ==
    { Raw("/i", Equal(SBool(TRUE))), Raw("/i", Equal(SNull)),
      Raw("/i", Equal(SInt(1))), Raw("/j", Match(SString(<<1>>), "Regex")),
      Raw("/j", Match(SString(<<OpenParen>>), "Regex")),
      Raw("/j", Equal(SBool(FALSE))), QAnd(<<>>), QOr(<<>>),
      QNot(Raw("/i", Equal(SBool(TRUE)))) }

QueryConditions ==
    {Raw(ptr, c) : ptr \in Pointers, c \in RawConditions}
    \cup {QNot(q) : q \in QueryKids}
    \cup {QAnd(qs) : qs \in SeqsUpTo(QueryKids, MaxChildren)}
    \cup {QOr(qs) : qs \in SeqsUpTo(QueryKids, MaxChildren)}

EmptyCache == [pattern \in {} |-> Compile(pattern)]
Pending == [ok |-> FALSE, val |-> FALSE, err |-> MkError("Pending")]
NoDoc == Doc(Absent, Absent)

EvalIdle ==
    /\ evalLevel = "none" /\ evalCond = NoCondition /\ evalValue = NoScalar
    /\ evalQuery = NoQuery /\ evalDoc = NoDoc
    /\ evalCalls = 0 /\ evalCache = EmptyCache /\ evalRes = Pending
    /\ evalTrace = <<>> /\ cache = EmptyCache

EvalInit ==
    /\ \/ /\ evalLevel = "cond"
          /\ evalCond \in Conditions /\ evalValue \in Scalars
          /\ evalQuery = NoQuery /\ evalDoc = NoDoc
       \/ /\ evalLevel = "query"
          /\ evalQuery \in QueryConditions /\ evalDoc \in QueryDocs
          /\ evalCond = NoCondition /\ evalValue = NoScalar
    /\ evalCalls = 0 /\ evalCache = EmptyCache /\ evalRes = Pending
    /\ evalTrace = <<>> /\ cache = EmptyCache

\* condition.eval(&value)
EvalCondition ==
    /\ evalLevel = "cond"
    /\ evalCalls < MaxCalls
    /\ LET x == CondEval(evalCond, evalValue, <<>>, [cache |-> cache, trace |-> <<>>])
       IN /\ evalRes' = x.res
          /\ evalTrace' = x.st.trace
          /\ cache' = x.st.cache
    /\ evalCache' = cache
    /\ evalCalls' = evalCalls + 1
    /\ UNCHANGED <<evalLevel, evalCond, evalValue, evalQuery, evalDoc, cmpVars, sortVars,
                   mainVars, regexVars, lockVars, numVars>>

\* query.eval(&document)
EvalQuery ==
    /\ evalLevel = "query"
    /\ evalCalls < MaxCalls
    /\ LET x == QueryEval(evalQuery, evalDoc, [cache |-> cache, trace |-> <<>>])
       IN /\ evalRes' = x.res
          /\ evalTrace' = x.st.trace
          /\ cache' = x.st.cache
    /\ evalCache' = cache
    /\ evalCalls' = evalCalls + 1
    /\ UNCHANGED <<evalLevel, evalCond, evalValue, evalQuery, evalDoc, cmpVars, sortVars,
                   mainVars, regexVars, lockVars, numVars>>

(***************************************************************************)
(* raw_query.rs, query.rs: the raw query and its conversion to a Query.    *)
(* A raw Condition or QueryCondition is a record of the shape of the       *)
(* converted one, holding raw Values and the serde names of the match      *)
(* types; a Query and a raw Query are named by their QueryCondition.       *)
(***************************************************************************)
RawNull == [t |-> "null", p |-> <<>>]
RawBool(b) == [t |-> "bool", p |-> <<IF b THEN 1 ELSE 0>>]
RawNumber(f) == [t |-> "number", p |-> f]
RawString(str) == [t |-> "string", p |-> str]

\* impl From<raw::MatchType> for MatchType
MatchTypeFrom(v) == IF v = "contain" THEN "Contain" ELSE "Regex"

\* impl From<raw::Condition> for Condition
RECURSIVE ConditionFrom(_)
ConditionFrom(v) ==
    CASE v.op \in {"Equal", "GreaterThan", "LessThan"} ->
            [v EXCEPT !.v = ValueFrom(v.v)]
      [] v.op = "Match" ->
            [v EXCEPT !.v = ValueFrom(v.v), !.m = MatchTypeFrom(v.m)]
      [] v.op \in {"Not", "And", "Or"} ->
            [v EXCEPT !.kids = [i \in 1..Len(v.kids) |-> ConditionFrom(v.kids[i])]]

\* impl From<raw::QueryPair> for QueryPair
QueryPairFrom(v) == [v EXCEPT !.condition = ConditionFrom(v.condition)]

\* impl From<raw::QueryCondition> for QueryCondition
RECURSIVE QueryConditionFrom(_)
QueryConditionFrom(v) ==
    IF v.op = "Raw" THEN QueryPairFrom(v)
    ELSE [v EXCEPT !.kids = [i \in 1..Len(v.kids) |-> QueryConditionFrom(v.kids[i])]]

\* impl From<raw::Query> for Query
QueryFrom(v) == QueryConditionFrom(v)

(***************************************************************************)
(* select.rs.  A line of input is the text of a document or is not JSON.   *)
(***************************************************************************)
NoDocument == Doc(Absent, Absent)
Line(doc) == [json |-> TRUE, doc |-> doc]
NotJson == [json |-> FALSE, doc |-> NoDocument]

JsonError == MkError("Json")
IoError == MkError("Io")
FilteredByQuery == MkError("FilteredByQuery")
InvalidOption == MkError("InvalidOption")

\* Result<serde_json Value>
OkDoc(doc) == [ok |-> TRUE, val |-> doc, err |-> NoError]
ErrDoc(e) == [ok |-> FALSE, val |-> NoDocument, err |-> e]

\* serde_json::from_str::<Value>
FromStr(line) == IF line.json THEN OkDoc(line.doc) ELSE ErrDoc(JsonError)

\* is_filtered holding of every error.
IsFilteredAnyError(e) == e.code # ""

\* Error::is_filtered
IsFiltered(e) == e.code = "FilteredByQuery"

\* select::Query::new, select::Query::all
SelectorNew(q) == [all |-> FALSE, q |-> q]
SelectorAll == [all |-> TRUE, q |-> NoQuery]

\* self.q.eval(&v): OkQuery of all(), or the Query of new()
SelectorEval(sel, doc, st) ==
    IF sel.all THEN [res |-> Ok(TRUE), st |-> st]
    ELSE QueryEval(sel.q, doc, st)

\* select with the sentinel for a query that fails.
SelectErrorsFiltered(sel, line, st) ==
    LET v == FromStr(line)
    IN IF ~v.ok THEN [res |-> v, st |-> st]
       ELSE LET x == SelectorEval(sel, v.val, st)
            IN [res |-> IF x.res.ok /\ x.res.val THEN OkDoc(v.val)
                        ELSE ErrDoc(FilteredByQuery),
                st |-> x.st]

\* select::Query::select
Select(sel, line, st) ==
    LET v == FromStr(line)
    IN IF ~v.ok THEN [res |-> v, st |-> st]
       ELSE LET x == SelectorEval(sel, v.val, st)
            IN [res |-> IF ~x.res.ok THEN ErrDoc(x.res.err)
                        ELSE IF x.res.val THEN OkDoc(v.val)
                        ELSE ErrDoc(FilteredByQuery),
                st |-> x.st]

(***************************************************************************)
(* main.rs: Opt.  An option is None or Some source: an inline text, or a   *)
(* path to a file that can be read or not; the text parses to val or is    *)
(* not JSON of the wanted shape.  A Result is [ok, val, err], an Option of *)
(* a Result [some, res].                                                   *)
(***************************************************************************)
NoneSource(filler) == [some |-> FALSE, readable |-> TRUE, json |-> FALSE, val |-> filler]
Text(val) == [some |-> TRUE, readable |-> TRUE, json |-> TRUE, val |-> val]
BadText(filler) == [some |-> TRUE, readable |-> TRUE, json |-> FALSE, val |-> filler]
NoFile(filler) == [some |-> TRUE, readable |-> FALSE, json |-> FALSE, val |-> filler]

\* RawSort::try_from / RawQuery::try_from of a text
TryFrom(src) ==
    IF src.json THEN [ok |-> TRUE, val |-> src.val, err |-> NoError]
    ELSE [ok |-> FALSE, val |-> src.val, err |-> JsonError]

\* The closure of get_raw_sort / get_raw_query on a path: File::open,
\* read_to_string, try_from.
TryFromFile(src) ==
    IF ~src.readable THEN [ok |-> FALSE, val |-> src.val, err |-> IoError]
    ELSE TryFrom(src)

\* Option::xor
Xor(k, s) ==
    IF k.some /\ ~s.some THEN k
    ELSE IF ~k.some /\ s.some THEN s
    ELSE [some |-> FALSE, res |-> k.res]

\* Opt::validate
Validate(o) ==
    IF o.raw_query.some /\ o.query.some
    THEN [ok |-> FALSE, val |-> o, err |-> InvalidOption]
    ELSE [ok |-> TRUE, val |-> o, err |-> NoError]

\* Opt::get_raw_sort
GetRawSort(o) ==
    LET k == [some |-> o.raw_sort.some, res |-> TryFrom(o.raw_sort)]
        s == [some |-> o.sort.some, res |-> TryFromFile(o.sort)]
    IN Xor(k, s)

\* Opt::get_sort: Result<Option<Sort>>; val is the settings of the builder
\* of the Sort.
GetSort(o) ==
    LET x == GetRawSort(o)
    IN IF ~x.some THEN [ok |-> TRUE, some |-> FALSE, val |-> <<>>, err |-> NoError]
       ELSE IF x.res.ok
       THEN [ok |-> TRUE, some |-> TRUE, val |-> SortFrom(x.res.val), err |-> NoError]
       ELSE [ok |-> FALSE, some |-> FALSE, val |-> <<>>, err |-> x.res.err]

\* Opt::get_raw_query
GetRawQuery(o) ==
    LET r == [some |-> o.raw_query.some, res |-> TryFrom(o.raw_query)]
        q == [some |-> o.query.some, res |-> TryFromFile(o.query)]
    IN Xor(r, q)

\* Opt::get_query
GetQuery(o) ==
    LET x == GetRawQuery(o)
    IN IF x.some /\ x.res.ok
       THEN [x EXCEPT !.res.val = QueryFrom(x.res.val)]
       ELSE x

\* Opt::get_selector
GetSelector(o) ==
    LET x == GetQuery(o)
    IN IF ~x.some THEN [ok |-> TRUE, val |-> SelectorAll, err |-> NoError]
       ELSE IF x.res.ok THEN [ok |-> TRUE, val |-> SelectorNew(x.res.val), err |-> NoError]
       ELSE [ok |-> FALSE, val |-> SelectorAll, err |-> x.res.err]

(***************************************************************************)
(* The machine of the command line: main() validates the options, builds   *)
(* the selector and the sorter, reads standard input line by line until    *)
(* its end, and prints the sorted lines.  A failed unwrap() ends the       *)
(* process.                                                                *)
(***************************************************************************)
QueryTextA == Raw("/i", Equal(RawBool(TRUE)))
QueryTextB == Raw("/j", Match(RawString(<<1>>), "regex"))
SortTextDesc == << [pointer |-> "/j", order |-> "desc"] >>
SortTextAsc == << [pointer |-> "/j", order |-> "none"] >>

\* The command lines of the model: -r, -q, -k and -s, each absent or given.
Opts ==
    [ raw_query : {NoneSource(NoQuery), Text(QueryTextA), Text(QueryTextB),
                   BadText(NoQuery)},
      query : {NoneSource(NoQuery), Text(QueryTextA), NoFile(NoQuery)},
      raw_sort : {NoneSource(<<>>), Text(SortTextDesc), BadText(<<>>)},
      sort : {NoneSource(<<>>), Text(SortTextAsc), NoFile(<<>>)} ]

\* The input lines of the model:
\*   {"i":true,"j":1}  {"i":true,"j":0}  {"i":false,"j":"a"}
\*   {"i":null,"j":[]}  and a line that is not JSON
InputLines ==
    { Line(Doc(JBool(TRUE), N1)), Line(Doc(JBool(TRUE), N0)),
      Line(Doc(JBool(FALSE), JString(<<1>>))), Line(Doc(JNull, JArray(<<>>))),
      NotJson }

NoSelection == ErrDoc(MkError("Pending"))

MainIdle ==
    /\ pc = "none" /\ opt = <<>> /\ selector = SelectorAll /\ sorter = "None"
    /\ use_sort = FALSE /\ lines = <<>> /\ lineCount = 0
    /\ stdout = <<>> /\ stderr = <<>> /\ panic = NoError
    /\ curLine = NotJson /\ selected = NoSelection /\ selTrace = <<>>

MainInit ==
    /\ pc = "validate" /\ opt \in Opts /\ selector = SelectorAll
    /\ sorter = "None" /\ use_sort = FALSE /\ lines = <<>> /\ lineCount = 0
    /\ stdout = <<>> /\ stderr = <<>> /\ panic = NoError
    /\ curLine = NotJson /\ selected = NoSelection /\ selTrace = <<>>

\* let opt = Opt::from_args().validate().unwrap();
MainValidate ==
    /\ pc = "validate"
    /\ LET x == Validate(opt)
       IN IF x.ok
          THEN pc' = "get_selector" /\ panic' = panic
          ELSE pc' = "panicked" /\ panic' = x.err
    /\ UNCHANGED <<opt, selector, sorter, use_sort, lines, lineCount, stdout,
                   stderr, curLine, selected, selTrace>>
    /\ UNCHANGED <<cmpVars, sortVars, evalVars, regexVars, lockVars, numVars>>

\* let q = opt.get_selector().unwrap();
MainGetSelector ==
    /\ pc = "get_selector"
    /\ LET x == GetSelector(opt)
       IN IF x.ok
          THEN pc' = "get_sort" /\ selector' = x.val /\ panic' = panic
          ELSE pc' = "panicked" /\ selector' = selector /\ panic' = x.err
    /\ UNCHANGED <<opt, sorter, use_sort, lines, lineCount, stdout, stderr,
                   curLine, selected, selTrace>>
    /\ UNCHANGED <<cmpVars, sortVars, evalVars, regexVars, lockVars, numVars>>

\* let mut s = opt.get_sort().unwrap(); let use_sort = s.is_some();
\* let mut lines = Vec::new();
MainGetSort ==
    /\ pc = "get_sort"
    /\ LET x == GetSort(opt)
       IN IF x.ok
          THEN /\ pc' = "loop" /\ panic' = panic
               /\ sorter' = IF x.some THEN "Some" ELSE "None"
               /\ settings' = x.val
               /\ use_sort' = x.some
          ELSE /\ pc' = "panicked" /\ panic' = x.err
               /\ UNCHANGED <<sorter, settings, use_sort>>
    /\ UNCHANGED <<opt, selector, lines, lineCount, stdout, stderr, curLine,
                   selected, selTrace>>
    /\ UNCHANGED <<cmpVars, list, added, phase, trail, evalVars, regexVars,
                   lockVars, numVars>>

\* One turn of the for loop: stdin yields the line l.
MainLine(l) ==
    /\ pc = "loop"
    /\ lineCount < MaxLines
    /\ LET x == Select(selector, l, [cache |-> cache, trace |-> <<>>])
           accepted == x.res.ok
           reported == ~x.res.ok /\ ~IsFiltered(x.res.err)
       IN /\ selected' = x.res
          /\ selTrace' = x.st.trace
          /\ cache' = x.st.cache
          /\ IF accepted /\ use_sort
             THEN /\ list' = Append(list, NewPairs(settings, list, FromStr(l).val))
                  /\ added' = Append(added, FromStr(l).val)
                  /\ lines' = Append(lines, l)
             ELSE UNCHANGED <<list, added, lines>>
          /\ stdout' = IF accepted /\ ~use_sort THEN Append(stdout, l) ELSE stdout
          /\ stderr' = IF reported
                       THEN Append(stderr, [line |-> lineCount + 1, err |-> x.res.err])
                       ELSE stderr
    /\ curLine' = l
    /\ lineCount' = lineCount + 1
    /\ UNCHANGED <<pc, opt, selector, sorter, use_sort, panic>>
    /\ UNCHANGED <<cmpVars, settings, phase, trail, evalLevel, evalCond,
                   evalValue, evalQuery, evalDoc, evalCalls, evalCache, evalRes,
                   evalTrace, regexVars, lockVars, numVars>>

\* stdin yields an error instead of a line: l.unwrap() fails.
MainReadError ==
    /\ pc = "loop"
    /\ pc' = "panicked"
    /\ panic' = IoError
    /\ UNCHANGED <<opt, selector, sorter, use_sort, lines, lineCount, stdout,
                   stderr, curLine, selected, selTrace>>
    /\ UNCHANGED <<cmpVars, sortVars, evalVars, regexVars, lockVars, numVars>>

\* The end of main() printing the kept lines in the order they were kept.
MainEndPrintsBuffer ==
    /\ pc = "loop"
    /\ pc' = "done"
    /\ IF lines # <<>>
       THEN /\ sorter' = "Moved"
            /\ \E alg \in SortAlgorithms :
                  /\ trail' = SortLoop(<<list>>, settings, 1, alg)
                  /\ list' = trail'[Len(trail')]
            /\ phase' = "sorted"
            /\ stdout' = stdout \o lines
       ELSE UNCHANGED <<sorter, trail, list, phase, stdout>>
    /\ UNCHANGED <<opt, selector, use_sort, lines, lineCount, stderr, panic,
                   curLine, selected, selTrace>>
    /\ UNCHANGED <<cmpVars, settings, added, evalVars, regexVars, lockVars,
                   numVars>>

\* stdin is at its end: the loop is left, and the lines kept for the
\* sorter are printed in the order of sorted_indexes, which takes the Sort
\* out of s.
MainEnd ==
    /\ pc = "loop"
    /\ pc' = "done"
    /\ IF lines # <<>>
       THEN /\ sorter' = "Moved"
            /\ \E alg \in SortAlgorithms :
                  /\ trail' = SortLoop(<<list>>, settings, 1, alg)
                  /\ list' = trail'[Len(trail')]
            /\ phase' = "sorted"
            /\ stdout' = stdout \o [k \in 1..Len(list') |->
                                       lines[Indexes(list')[k] + 1]]
       ELSE UNCHANGED <<sorter, trail, list, phase, stdout>>
    /\ UNCHANGED <<opt, selector, use_sort, lines, lineCount, stderr, panic,
                   curLine, selected, selTrace>>
    /\ UNCHANGED <<cmpVars, settings, added, evalVars, regexVars, lockVars,
                   numVars>>

(***************************************************************************)
(* The machine of the matcher: Matcher::test is called any number of times *)
(* in one process, each time with some pattern and some text.              *)
(***************************************************************************)
RegexPatterns == { <<1>>, <<Caret, 1>>, <<1, 2>>, <<OpenParen>> }
Candidates == { <<>>, <<1>>, <<1, 2>>, <<2, 1>> }
NoCompiles == [pattern \in RegexPatterns |-> 0]

\* Matcher::test
MatcherTest(kind, l, value, l_cache) ==
    IF kind = "Raw" THEN [res |-> TestRaw(l, value), cache |-> l_cache]
    ELSE TestRegex(l_cache, l, value)

RegexIdle ==
    /\ regexCalls = 0 /\ compiles = NoCompiles /\ lastKind = "none"
    /\ lastPattern = <<>> /\ lastValue = <<>> /\ lastRes = Pending
    /\ lastCache = EmptyCache

RegexInit == RegexIdle /\ cache = EmptyCache

\* Matcher::Regex(pattern).test(value); Regex::new is called when the
\* cache has no entry for the pattern.
MatcherTestRegex(pattern, value) ==
    /\ regexCalls < MaxTests
    /\ LET x == MatcherTest("Regex", pattern, value, cache)
       IN lastRes' = x.res /\ cache' = x.cache
    /\ compiles' = IF pattern \in DOMAIN cache THEN compiles
                   ELSE [compiles EXCEPT ![pattern] = @ + 1]
    /\ lastKind' = "Regex" /\ lastPattern' = pattern /\ lastValue' = value
    /\ lastCache' = cache
    /\ regexCalls' = regexCalls + 1
    /\ UNCHANGED <<cmpVars, sortVars, evalRest, mainVars, lockVars, numVars>>

\* Matcher::Raw(pattern).test(value)
MatcherTestRaw(pattern, value) ==
    /\ regexCalls < MaxTests
    /\ LET x == MatcherTest("Raw", pattern, value, cache)
       IN lastRes' = x.res /\ cache' = x.cache
    /\ lastKind' = "Raw" /\ lastPattern' = pattern /\ lastValue' = value
    /\ lastCache' = cache
    /\ regexCalls' = regexCalls + 1
    /\ UNCHANGED <<cmpVars, sortVars, evalRest, mainVars, lockVars, numVars>>
    /\ UNCHANGED compiles

(***************************************************************************)
(* The machine of concurrent evaluators: each thread calls                 *)
(* Matcher::_test_regex once, step by step: REGEX_CACHE.lock(), l.get,     *)
(* Regex::new and is_match, l.insert, and the return that drops the guard. *)
(***************************************************************************)
Threads == 1..NumThreads
Jobs == [pattern : { <<1>>, <<Caret, 1>>, <<OpenParen>> }, value : { <<1>>, <<2, 1>> }]
NoRegex == [program |-> <<>>]

\* A mutex that excludes nobody.
MutexNeverHeld(m) == TRUE

\* Mutex::lock returns when no guard of the mutex is alive.
MutexFree(m) == m = 0

LockIdle ==
    /\ mutex = 0
    /\ tpc = [t \in Threads |-> "idle"]
    /\ job = [t \in Threads |-> [pattern |-> <<>>, value |-> <<>>]]
    /\ local = [t \in Threads |-> NoRegex]
    /\ tres = [t \in Threads |-> Pending]

LockInit ==
    /\ mutex = 0
    /\ tpc = [t \in Threads |-> "lock"]
    /\ job \in [Threads -> Jobs]
    /\ local = [t \in Threads |-> NoRegex]
    /\ tres = [t \in Threads |-> Pending]
    /\ cache = EmptyCache /\ compiles = NoCompiles

\* let mut l = REGEX_CACHE.lock().unwrap();
ThreadLock(t) ==
    /\ tpc[t] = "lock"
    /\ MutexFree(mutex)
    /\ mutex' = t
    /\ tpc' = [tpc EXCEPT ![t] = "get"]
    /\ UNCHANGED <<job, local, tres, cache, compiles>>
    /\ UNCHANGED <<cmpVars, sortVars, evalRest, mainVars, regexRest, numVars>>

\* match l.get(pattern) { Some(x) => Ok(x.is_match(..)), _ => ..
ThreadGet(t) ==
    /\ tpc[t] = "get"
    /\ IF job[t].pattern \in DOMAIN cache
       THEN /\ tres' = [tres EXCEPT ![t] = Ok(IsMatch(cache[job[t].pattern], job[t].value))]
            /\ tpc' = [tpc EXCEPT ![t] = "return"]
       ELSE /\ tres' = tres
            /\ tpc' = [tpc EXCEPT ![t] = "new"]
    /\ UNCHANGED <<mutex, job, local, cache, compiles>>
    /\ UNCHANGED <<cmpVars, sortVars, evalRest, mainVars, regexRest, numVars>>

\* The step of Regex::new going on to the insert also when it failed.
ThreadNewAlwaysInserts(t) ==
    /\ tpc[t] = "new"
    /\ compiles' = [compiles EXCEPT ![job[t].pattern] = @ + 1]
    /\ local' = [local EXCEPT ![t] = IF RegexValid(job[t].pattern)
                                     THEN Compile(job[t].pattern) ELSE NoRegex]
    /\ tres' = [tres EXCEPT ![t] =
                   IF RegexValid(job[t].pattern)
                   THEN Ok(IsMatch(Compile(job[t].pattern), job[t].value))
                   ELSE Err(InvalidRegex(job[t].pattern))]
    /\ tpc' = [tpc EXCEPT ![t] = "insert"]
    /\ UNCHANGED <<mutex, job, cache>>
    /\ UNCHANGED <<cmpVars, sortVars, evalRest, mainVars, regexRest, numVars>>

\* let x = Regex::new(pattern).map_err(..)?; let b = x.is_match(..);
ThreadNew(t) ==
    /\ tpc[t] = "new"
    /\ compiles' = [compiles EXCEPT ![job[t].pattern] = @ + 1]
    /\ IF RegexValid(job[t].pattern)
       THEN /\ local' = [local EXCEPT ![t] = Compile(job[t].pattern)]
            /\ tres' = [tres EXCEPT ![t] = Ok(IsMatch(Compile(job[t].pattern), job[t].value))]
            /\ tpc' = [tpc EXCEPT ![t] = "insert"]
       ELSE /\ local' = local
            /\ tres' = [tres EXCEPT ![t] = Err(InvalidRegex(job[t].pattern))]
            /\ tpc' = [tpc EXCEPT ![t] = "return"]
    /\ UNCHANGED <<mutex, job, cache>>
    /\ UNCHANGED <<cmpVars, sortVars, evalRest, mainVars, regexRest, numVars>>

\* l.insert(pattern.to_owned(), x);
ThreadInsert(t) ==
    /\ tpc[t] = "insert"
    /\ cache' = [q \in DOMAIN cache \cup {job[t].pattern} |->
                    IF q = job[t].pattern THEN local[t] ELSE cache[q]]
    /\ tpc' = [tpc EXCEPT ![t] = "return"]
    /\ UNCHANGED <<mutex, job, local, tres, compiles>>
    /\ UNCHANGED <<cmpVars, sortVars, evalRest, mainVars, regexRest, numVars>>

\* The function returns and the guard l is dropped.
ThreadReturn(t) ==
    /\ tpc[t] = "return"
    /\ mutex' = 0
    /\ tpc' = [tpc EXCEPT ![t] = "done"]
    /\ UNCHANGED <<job, local, tres, cache, compiles>>
    /\ UNCHANGED <<cmpVars, sortVars, evalRest, mainVars, regexRest, numVars>>

(***************************************************************************)
(* The machine of number classification: a JSON number literal is read as  *)
(* the value of a document, resolved by QueryPair::to_value, and as the    *)
(* constant of a raw query, converted by Value::from.                      *)
(***************************************************************************)
\* The literals of the model: integer literals up to 2^33, and literals
\* written with a fraction part or an exponent (1.0, 1.0000000000000002,
\* 2147483648.0, 2.220446049250313e-16, ...).
NumberLiterals ==
    ({JInt(sign, hi, lo) : sign \in {1, -1}, hi \in 0..2, lo \in {0, 1, I32Max}}
        \ {JInt(-1, 0, 0)})
    \cup {JFloat(sign, hi, lo, 0) : sign \in {1, -1}, hi \in 0..1, lo \in 0..1}
    \cup {JFloat(sign, 0, lo, 1) : sign \in {1, -1}, lo \in 0..1}

\* The f64 that serde reads from a number literal for raw::Value::Number.
DeserializeF64(lit) == AsF64(lit)

NumIdle == numLit = JNull /\ numDoc = NoScalar /\ numConst = NoScalar

NumInit == numLit \in NumberLiterals /\ numDoc = NoScalar /\ numConst = NoScalar

\* QueryPair::to_value("/i", {"i": literal})
NumFromDocument ==
    /\ numDoc = NoScalar
    /\ numDoc' = ToValue("/i", Doc(numLit, Absent)).val
    /\ UNCHANGED <<numLit, numConst>>
    /\ UNCHANGED <<cmpVars, sortVars, evalVars, mainVars, regexVars, lockVars>>

\* Value::from(raw::Value::Number { value: literal })
NumFromConstant ==
    /\ numConst = NoScalar
    /\ numConst' = ValueFrom(RawNumber(DeserializeF64(numLit)))
    /\ UNCHANGED <<numLit, numDoc>>
    /\ UNCHANGED <<cmpVars, sortVars, evalVars, mainVars, regexVars, lockVars>>

CmpNext == CallCmp \/ CallEq
SortNext == (\E doc \in SortDocs : Add(doc)) \/ SortedIndexes
EvalNext == EvalCondition \/ EvalQuery
MainNext ==
    \/ MainValidate \/ MainGetSelector \/ MainGetSort
    \/ (\E l \in InputLines : MainLine(l)) \/ MainReadError \/ MainEnd

RegexNext ==
    \E pattern \in RegexPatterns, value \in Candidates :
        MatcherTestRegex(pattern, value) \/ MatcherTestRaw(pattern, value)
LockNext ==
    \E t \in Threads :
        ThreadLock(t) \/ ThreadGet(t) \/ ThreadNew(t) \/ ThreadInsert(t) \/ ThreadReturn(t)
NumNext == NumFromDocument \/ NumFromConstant

InitCmp ==
    CmpInit /\ SortIdle /\ EvalIdle /\ MainIdle /\ RegexIdle /\ LockIdle /\ NumIdle
InitSort ==
    SortInit /\ CmpIdle /\ EvalIdle /\ MainIdle /\ RegexIdle /\ LockIdle /\ NumIdle
InitEval ==
    EvalInit /\ CmpIdle /\ SortIdle /\ MainIdle /\ RegexIdle /\ LockIdle /\ NumIdle
InitMain ==
    MainInit /\ CmpIdle /\ SortIdle /\ EvalIdle /\ RegexIdle /\ LockIdle /\ NumIdle
InitRegex ==
    RegexInit /\ CmpIdle /\ SortIdle /\ EvalIdle /\ MainIdle /\ LockIdle /\ NumIdle
InitLock ==
    LockInit /\ CmpIdle /\ SortIdle /\ EvalIdle /\ MainIdle /\ NumIdle
    /\ regexCalls = 0 /\ lastKind = "none" /\ lastPattern = <<>> /\ lastValue = <<>>
    /\ lastRes = Pending /\ lastCache = EmptyCache
InitNum ==
    NumInit /\ CmpIdle /\ SortIdle /\ EvalIdle /\ MainIdle /\ RegexIdle /\ LockIdle

SpecCmp == InitCmp /\ [][CmpNext]_vars
SpecSort == InitSort /\ [][SortNext]_vars
SpecEval == InitEval /\ [][EvalNext]_vars
SpecMain == InitMain /\ [][MainNext]_vars
SpecRegex == InitRegex /\ [][RegexNext]_vars
SpecLock == InitLock /\ [][LockNext]_vars
SpecNum == InitNum /\ [][NumNext]_vars

(***************************************************************************)
(* Properties.                                                             *)
(***************************************************************************)
Asc(ptr) == [pointer |-> ptr, order |-> "Asc"]
Desc(ptr) == [pointer |-> ptr, order |-> "Desc"]

\* The order of two records under criterion k, in its direction.
DirCmp(x, y, k) ==
    IF settings[k].order = "Asc"
    THEN PairCmp(x.pairs[k], y.pairs[k])
    ELSE PairCmp(y.pairs[k], x.pairs[k])

\* The keys of x against those of y, criterion k first, then k - 1, ..., 1.
RECURSIVE LexCmp(_, _, _)
LexCmp(x, y, k) ==
    IF k = 0 THEN "Equal"
    ELSE LET c == DirCmp(x, y, k)
         IN IF c # "Equal" THEN c ELSE LexCmp(x, y, k - 1)

FourRecords == << Doc(N0, N1), Doc(N1, N1), Doc(N1, N0), Doc(N0, N0) >>

\* C1: after sort() the last-declared criterion is the primary key and the
\* earlier ones successively weaker tie-breakers: a record placed before
\* another never has the greater keys, read from the last criterion to the
\* first; the four records {i:0,j:1} {i:1,j:1} {i:1,j:0} {i:0,j:0} give
\* [3,2,0,1] for [/i asc, /j asc] and [3,0,2,1] for [/j asc, /i asc].
C1_LastCriterionIsPrimary ==
    phase = "sorted" =>
        /\ \A a, b \in 1..Len(list) :
              a < b => LexCmp(list[a], list[b], Len(settings)) # "Greater"
        /\ (added = FourRecords /\ settings = <<Asc("/i"), Asc("/j")>>)
              => Indexes(list) = <<3, 2, 0, 1>>
        /\ (added = FourRecords /\ settings = <<Asc("/j"), Asc("/i")>>)
              => Indexes(list) = <<3, 0, 2, 1>>

\* The rank of a variant in the order Null < Array < Object < Bool < Number
\* < String.
Rank(v) ==
    CASE v.t = "null" -> 0 [] v.t = "array" -> 1 [] v.t = "object" -> 2
      [] v.t = "bool" -> 3 [] v.t = "number" -> 4 [] v.t = "string" -> 5

\* C2: cmp orders values of different variants by the rank Null < Array <
\* Object < Bool < Number < String; false < true; two Arrays, and two
\* Objects, compare Equal whatever they hold; values of different variants
\* never compare Equal.
C2_VariantRank ==
    cmpOrd # "none" =>
        /\ Rank(cmpA) < Rank(cmpB) => cmpOrd = "Less"
        /\ Rank(cmpA) > Rank(cmpB) => cmpOrd = "Greater"
        /\ (cmpA = JBool(FALSE) /\ cmpB = JBool(TRUE)) => cmpOrd = "Less"
        /\ (cmpA = JBool(TRUE) /\ cmpB = JBool(FALSE)) => cmpOrd = "Greater"
        /\ (cmpA.t = "array" /\ cmpB.t = "array") => cmpOrd = "Equal"
        /\ (cmpA.t = "object" /\ cmpB.t = "object") => cmpOrd = "Equal"
        /\ cmpOrd = "Equal" => cmpA.t = cmpB.t

\* C2's case: two arrays of different contents were compared.
C2_Witness ==
    /\ cmpOrd = "Equal"
    /\ cmpA.t = "array" /\ cmpB.t = "array" /\ cmpA.p # cmpB.p

\* The position in sequence t of the record added as number index.
PositionOf(t, index) == CHOOSE k \in 1..Len(t) : t[k].index = index

\* Criterion c does not resolve in the document added as number index.
Unresolved(index, c) == Pointer(added[index + 1], settings[c].pointer) = Absent

\* C10: add never fails and gives a record one key per criterion; the key of
\* a criterion whose pointer does not resolve is Null, it compares Equal to
\* the key of an explicit null, and the pass of an ascending criterion puts
\* the record before every record whose key for it is not null (so does the
\* final order when that criterion is the last one).
C10_UnresolvedPointerIsNull ==
    /\ Len(list) = Len(added)
    /\ \A k \in 1..Len(list) : \A c \in 1..Len(settings) :
          /\ Len(list[k].pairs) = Len(settings)
          /\ Unresolved(list[k].index, c) =>
                /\ list[k].pairs[c] = JNull
                /\ \A m \in 1..Len(list) :
                      Pointer(added[list[m].index + 1], settings[c].pointer) = JNull
                        => PairCmp(list[k].pairs[c], list[m].pairs[c]) = "Equal"
    /\ phase = "sorted" =>
          \A c \in 1..Len(settings) : settings[c].order = "Asc" =>
              \A x, y \in 1..Len(list) :
                  (Unresolved(x - 1, c) /\ trail[1][y].pairs[c].t # "null")
                      => PositionOf(trail[c + 1], x - 1) < PositionOf(trail[c + 1], y - 1)

\* C10's case: a record without /i, added after a record with a string at /i
\* and one with an explicit null there, has been sorted by /i ascending.
C10_Witness ==
    /\ phase = "sorted"
    /\ settings = <<Asc("/j"), Asc("/i")>>
    /\ added = << Doc(JString(<<1>>), N0), Doc(JNull, Eps1), Doc(Absent, Eps2) >>
    /\ Indexes(list) = <<1, 2, 0>>

(***************************************************************************)
(* Properties of the evaluator.                                            *)
(***************************************************************************)
Called == evalCalls > 0
CalledCondition == Called /\ evalLevel = "cond"
CalledQuery == Called /\ evalLevel = "query"

\* The root node of the last call, its children, and what child i returns
\* when it is evaluated by itself where the last call started.
RootOp == IF evalLevel = "cond" THEN evalCond.op ELSE evalQuery.op
RootKids == IF evalLevel = "cond" THEN evalCond.kids ELSE evalQuery.kids
StartSt == [cache |-> evalCache, trace |-> <<>>]
KidRes(i) ==
    IF evalLevel = "cond"
    THEN CondEval(evalCond.kids[i], evalValue, <<i>>, StartSt).res
    ELSE QueryConditionEval(evalQuery.kids[i], evalDoc, <<i>>, StartSt).res

\* The children of the root the last call entered, in the order of entry.
IsKidPath(path) == Len(path) = 1 /\ path[1] > 0
KidsEntered == SelectSeq(evalTrace, IsKidPath)
FirstKids(n) == [i \in 1..n |-> <<i>>]
Least(S) == CHOOSE i \in S : \A j \in S : i <= j

\* C3: an And with at least one child, of conditions or of query
\* conditions, evaluates its children in declared order up to the first one
\* that fails or is false, returns exactly what that child returned and
\* evaluates no later child; it is true only when every child is true.
C3_AndShortCircuit ==
    (Called /\ RootOp = "And" /\ RootKids # <<>>) =>
        LET deciding == {i \in 1..Len(RootKids) : ~KidRes(i).ok \/ ~KidRes(i).val}
        IN /\ deciding # {} =>
                /\ evalRes = KidRes(Least(deciding))
                /\ KidsEntered = FirstKids(Least(deciding))
           /\ deciding = {} =>
                /\ evalRes = Ok(TRUE)
                /\ KidsEntered = FirstKids(Len(RootKids))
           /\ evalRes = Ok(TRUE) =>
                \A i \in 1..Len(RootKids) : KidRes(i) = Ok(TRUE)

\* A false first child masks the NoChildren error of the second.
C3_Witness ==
    /\ CalledCondition
    /\ evalCond = And(<<Equal(SBool(FALSE)), And(<<>>)>>)
    /\ evalValue = SBool(TRUE)
    /\ evalRes = Ok(FALSE)
    /\ evalTrace = << <<>>, <<1>> >>

\* C4: an Or with at least one child, of conditions or of query conditions,
\* evaluates its children in declared order up to the first one that fails
\* or is true, returns exactly what that child returned and evaluates no
\* later child; it is false only when every child is false.
C4_OrShortCircuit ==
    (Called /\ RootOp = "Or" /\ RootKids # <<>>) =>
        LET deciding == {i \in 1..Len(RootKids) : ~KidRes(i).ok \/ KidRes(i).val}
        IN /\ deciding # {} =>
                /\ evalRes = KidRes(Least(deciding))
                /\ KidsEntered = FirstKids(Least(deciding))
           /\ deciding = {} =>
                /\ evalRes = Ok(FALSE)
                /\ KidsEntered = FirstKids(Len(RootKids))
           /\ evalRes = Ok(FALSE) =>
                \A i \in 1..Len(RootKids) : KidRes(i) = Ok(FALSE)

\* An invalid pattern in the first child hides the true second child.
C4_Witness ==
    /\ CalledQuery
    /\ evalQuery = QOr(<<Raw("/j", Match(SString(<<OpenParen>>), "Regex")),
                         Raw("/i", Equal(SBool(TRUE)))>>)
    /\ evalDoc = Doc(JBool(TRUE), JString(<<1, 2>>))
    /\ evalRes = Err(InvalidRegex(<<OpenParen>>))
    /\ evalTrace = << <<>>, <<1>>, <<1, 0>> >>

\* C5: an And or an Or without children, of conditions or of query
\* conditions, evaluates to the NoChildren error on every input, never to a
\* boolean.
C5_EmptyCompound ==
    (Called /\ RootOp \in {"And", "Or"} /\ RootKids = <<>>) =>
        /\ ~evalRes.ok
        /\ evalRes.err.code = "NoChildren"

C5_Witness ==
    /\ CalledQuery
    /\ evalQuery = QOr(<<>>)
    /\ evalRes = Err(NoChildren(QueryConditionTypeName))

ScalarVariants == {"Null", "Bool", "Int", "Float", "String"}

\* C6: Equal, GreaterThan and LessThan on a candidate of another variant
\* than the value they hold fail with TypeMismatch, never return a boolean.
C6_CrossVariantTypeMismatch ==
    ( /\ CalledCondition
      /\ evalCond.op \in {"Equal", "GreaterThan", "LessThan"}
      /\ evalCond.v.t \in ScalarVariants /\ evalValue.t \in ScalarVariants
      /\ evalCond.v.t # evalValue.t ) =>
        /\ ~evalRes.ok
        /\ evalRes.err.code = "TypeMismatch"

C6_Witness ==
    /\ CalledCondition
    /\ evalCond = Equal(SInt(1))
    /\ evalValue = SFloat(<<1, 0, 1, 0>>)
    /\ evalRes = Err(TypeMismatch(SInt(1), SFloat(<<1, 0, 1, 0>>)))

\* x before y in the lexicographic order: they agree on the first k bytes,
\* and there x ends and y goes on, or the next byte of x is the smaller.
LexLess(x, y) ==
    \E k \in 0..(Len(y) - 1) :
        /\ k <= Len(x)
        /\ \A n \in 1..k : x[n] = y[n]
        /\ (Len(x) = k \/ x[k + 1] < y[k + 1])

\* c strictly greater than v, for two Bools, two Ints or two Strings.
StrictlyGreater(c, v) ==
    CASE c.t = "Bool" -> c.p[1] = 1 /\ v.p[1] = 0
      [] c.t = "Int" -> c.p[1] > v.p[1]
      [] c.t = "String" -> LexLess(v.p, c.p)

\* C7: on two Bools, two Ints or two Strings, GreaterThan(v) on c is true
\* exactly when c is strictly greater than v; LessThan(v) on c is what
\* GreaterThan(c) returns on v; both are false when c equals v.
C7_OrderingSemantics ==
    ( /\ CalledCondition
      /\ evalCond.op \in {"GreaterThan", "LessThan"}
      /\ evalCond.v.t = evalValue.t
      /\ evalValue.t \in {"Bool", "Int", "String"} ) =>
        /\ evalCond.op = "GreaterThan" =>
              evalRes = Ok(StrictlyGreater(evalValue, evalCond.v))
        /\ evalCond.op = "LessThan" =>
              /\ evalRes = CondEval(GreaterThan(evalValue), evalCond.v, <<>>, StartSt).res
              /\ evalRes = Ok(StrictlyGreater(evalCond.v, evalValue))
        /\ evalCond.v = evalValue => evalRes = Ok(FALSE)

C7_Witness ==
    /\ CalledCondition
    /\ evalCond = LessThan(SString(<<1, 2>>))
    /\ evalValue = SString(<<1>>)
    /\ evalRes = Ok(TRUE)

\* pattern occurs in text: text is some bytes, pattern, some bytes.
OccursIn(pattern, text) ==
    \E before \in 0..Len(text), after \in 0..Len(text) :
        /\ before + Len(pattern) + after = Len(text)
        /\ \A k \in 1..Len(pattern) : text[before + k] = pattern[k]

\* C8: a Match returns a boolean only when the value it holds and the
\* candidate are both String, and fails with MatcherTypeMismatch for every
\* other pair of variants; with Contain the boolean tells whether the
\* pattern occurs in the candidate.
C8_MatchNeedsStrings ==
    (CalledCondition /\ evalCond.op = "Match") =>
        LET strings == evalCond.v.t = "String" /\ evalValue.t = "String"
        IN /\ evalRes.ok => strings
           /\ ~strings => evalRes.err.code = "MatcherTypeMismatch"
           /\ (strings /\ evalCond.m = "Contain") =>
                 evalRes = Ok(OccursIn(evalCond.v.p, evalValue.p))

\* "a" occurs in "ab"; "ab" does not occur in "a".
C8_Witness ==
    /\ CalledCondition
    /\ evalCond = Match(SString(<<1>>), "Contain")
    /\ evalValue = SString(<<1, 2>>)
    /\ evalRes = Ok(TRUE)

\* C9: a Raw leaf resolves its pointer first.  Without a target it returns
\* InvalidPointer, on an array or an object InvalidTarget, and in both
\* cases its condition is not entered; otherwise it returns what the
\* condition returns on the extracted Scalar Value, which is Null for a
\* JSON null.
C9_RawResolvesPointerFirst ==
    (CalledQuery /\ evalQuery.op = "Raw") =>
        LET target == evalDoc[evalQuery.pointer]
            OnValue(v) == CondEval(evalQuery.condition, v, <<0>>, StartSt).res
        IN /\ target = Absent =>
                /\ ~evalRes.ok /\ evalRes.err.code = "InvalidPointer"
                /\ evalTrace = << <<>> >>
           /\ target.t \in {"array", "object"} =>
                /\ ~evalRes.ok /\ evalRes.err.code = "InvalidTarget"
                /\ evalTrace = << <<>> >>
           /\ target.t \in {"null", "bool", "number", "string"} =>
                /\ evalRes = OnValue(ToValue(evalQuery.pointer, evalDoc).val)
                /\ evalTrace[2] = <<0>>
           /\ target.t = "null" => evalRes = OnValue(SNull)
           /\ target.t = "bool" => evalRes = OnValue(SBool(target.p[1] = 1))
           /\ target.t = "string" => evalRes = OnValue(SString(target.p))

\* The pointer finds an object; the condition alone would fail with
\* NoChildren.
C9_Witness ==
    /\ CalledQuery
    /\ evalQuery = Raw("/j", And(<<>>))
    /\ evalDoc = Doc(N1, JObject(<<1>>))
    /\ evalRes = Err(InvalidTarget("/j", Doc(N1, JObject(<<1>>))))
    /\ evalTrace = << <<>> >>

(***************************************************************************)
(* Properties of the command line.                                         *)
(***************************************************************************)
\* What the query of the selector returns on the document of the line of
\* the last turn.
QueryOfTurn == SelectorEval(selector, curLine.doc, [cache |-> cache, trace |-> <<>>]).res

\* C11: select returns the document exactly when the query is true on it,
\* the FilteredByQuery sentinel exactly when the query is false, the error
\* of the query unchanged when it fails, and a Json error without entering
\* the query when the line is not JSON; is_filtered holds of the sentinel
\* only.
C11_SelectOutcomes ==
    lineCount > 0 =>
        /\ ~curLine.json => (selected = ErrDoc(JsonError) /\ selTrace = <<>>)
        /\ curLine.json =>
              /\ selected.ok <=> QueryOfTurn = Ok(TRUE)
              /\ selected.ok => selected = OkDoc(curLine.doc)
              /\ selected = ErrDoc(FilteredByQuery) <=> QueryOfTurn = Ok(FALSE)
              /\ ~QueryOfTurn.ok => selected = ErrDoc(QueryOfTurn.err)
              /\ ~selector.all => selTrace # <<>>
        /\ (~selected.ok /\ IsFiltered(selected.err)) =>
              (curLine.json /\ QueryOfTurn = Ok(FALSE))

\* {"i":false,"j":"a"} is filtered out by /i = true.
C11_Witness ==
    /\ lineCount > 0
    /\ selector = SelectorNew(Raw("/i", Equal(SBool(TRUE))))
    /\ curLine = Line(Doc(JBool(FALSE), JString(<<1>>)))
    /\ selected = ErrDoc(FilteredByQuery)
    /\ selTrace = << <<>>, <<0>> >>

\* C12: a turn of the read loop whose selection fails with a genuine error
\* prints one diagnostic with the 1-based number of its line and neither
\* prints the line nor adds it to the sorter; a turn whose line is filtered
\* out prints nothing at all; after both the loop goes on.
C12_RecordErrorsAreLocal ==
    [][ (lineCount' = lineCount + 1 /\ ~selected'.ok) =>
            /\ stderr' = IF selected'.err = FilteredByQuery THEN stderr
                         ELSE Append(stderr, [line |-> lineCount + 1,
                                              err |-> selected'.err])
            /\ stdout' = stdout /\ lines' = lines
            /\ list' = list /\ added' = added
            /\ pc = "loop" /\ pc' = "loop" ]_vars

\* Line 2 is not JSON and is reported; line 3 is read and printed.
C12_Witness ==
    /\ lineCount = 3
    /\ stderr = << [line |-> 2, err |-> JsonError] >>
    /\ stdout = << Line(Doc(JBool(TRUE), N1)), Line(Doc(JBool(TRUE), N0)) >>
    /\ selected = OkDoc(Doc(JBool(TRUE), N0))

(***************************************************************************)
(* Properties of the matcher and of the regex cache.                       *)
(***************************************************************************)
\* What a Regex test of the pattern on the text returns in a process that
\* never tested anything before.
FreshResult(pattern, value) == TestRegex(EmptyCache, pattern, value).res

\* C13: in any sequence of Regex tests of one process, Regex::new is called
\* at most once for each valid pattern: by the first test of the pattern,
\* which inserts it into the cache, and by no later one; and a test returns
\* what a fresh process returns for its pattern and text, from a cache hit
\* as from a compile.
C13_CompiledAtMostOnce ==
    /\ \A pattern \in RegexPatterns :
          RegexValid(pattern) =>
              /\ compiles[pattern] <= 1
              /\ compiles[pattern] = 1 <=> pattern \in DOMAIN cache
    /\ lastKind = "Regex" =>
          /\ lastRes = FreshResult(lastPattern, lastValue)
          /\ RegexValid(lastPattern) => lastPattern \in DOMAIN cache
          /\ lastPattern \in DOMAIN lastCache => cache = lastCache

\* The third test finds ^a in the cache, after a test of another pattern,
\* and returns false on "ba" as the first test of ^a did.
C13_Witness ==
    /\ regexCalls = 3
    /\ lastKind = "Regex"
    /\ lastPattern = <<Caret, 1>>
    /\ lastValue = <<2, 1>>
    /\ lastPattern \in DOMAIN lastCache
    /\ <<1>> \in DOMAIN lastCache
    /\ compiles[<<Caret, 1>>] = 1
    /\ lastRes = Ok(FALSE)

\* The threads between REGEX_CACHE.lock() and the drop of the guard.
Holding == {t \in Threads : tpc[t] \in {"get", "new", "insert", "return"}}

\* C14: with several threads in _test_regex, at most one is between its
\* lock and its return, so in every interleaving a valid pattern is
\* compiled by at most one thread, an entry of the cache is never removed
\* or replaced, every thread that tested a valid pattern leaves it in the
\* cache, and every thread gets what a sequential test returns.
C14_OneLockPerTest ==
    /\ [](/\ Cardinality(Holding) <= 1
          /\ \A t \in Holding : mutex = t
          /\ \A pattern \in RegexPatterns :
                RegexValid(pattern) => compiles[pattern] <= 1
          /\ \A t \in Threads :
                tpc[t] = "done" =>
                    /\ tres[t] = FreshResult(job[t].pattern, job[t].value)
                    /\ RegexValid(job[t].pattern) =>
                          /\ job[t].pattern \in DOMAIN cache
                          /\ cache[job[t].pattern] = Compile(job[t].pattern))
    /\ [][\A pattern \in DOMAIN cache :
             pattern \in DOMAIN cache' /\ cache'[pattern] = cache[pattern]]_vars

\* Every thread tested the pattern a; one of them compiled it.
C14_Witness ==
    /\ \A t \in Threads : tpc[t] = "done" /\ job[t].pattern = <<1>>
    /\ job[1].value # job[2].value
    /\ compiles[<<1>>] = 1
    /\ tres[1] = Ok(TRUE) /\ tres[2] = Ok(TRUE)

(***************************************************************************)
(* Properties of the passes of the ordering engine.                        *)
(***************************************************************************)
\* The composite comparator: the criteria from the last declared to the
\* first, each in its direction, the next one only on Equal.
CompositeIsLess(x, y) == LexCmp(x, y, Len(settings)) = "Less"

\* slice::sort_by with the composite comparator, as each std runs it.
RECURSIVE CompositeShiftLeftPos(_, _, _)
CompositeShiftLeftPos(s, x, j) ==
    IF j >= 1 /\ CompositeIsLess(x, s[j])
    THEN CompositeShiftLeftPos(s, x, j - 1)
    ELSE j

RECURSIVE CompositeShiftLeftSort(_, _)
CompositeShiftLeftSort(v, k) ==
    IF k > Len(v) THEN v
    ELSE LET pre == SubSeq(v, 1, k - 1)
             j == CompositeShiftLeftPos(pre, v[k], k - 1)
         IN CompositeShiftLeftSort(InsertAt(pre, v[k], j) \o SubSeq(v, k + 1, Len(v)),
                                   k + 1)

RECURSIVE CompositeInsertHeadPos(_, _, _)
CompositeInsertHeadPos(s, x, j) ==
    IF j < Len(s) /\ CompositeIsLess(s[j + 1], x)
    THEN CompositeInsertHeadPos(s, x, j + 1)
    ELSE j

RECURSIVE CompositeInsertHeadSort(_, _)
CompositeInsertHeadSort(v, k) ==
    IF k < 1 THEN v
    ELSE LET post == SubSeq(v, k + 1, Len(v))
             j == CompositeInsertHeadPos(post, v[k], 0)
         IN CompositeInsertHeadSort(SubSeq(v, 1, k - 1) \o InsertAt(post, v[k], j),
                                    k - 1)

CompositeSort(v, alg) ==
    IF alg = "insertion_sort_shift_left"
    THEN CompositeShiftLeftSort(v, 2)
    ELSE CompositeInsertHeadSort(v, Len(v) - 1)

\* The list sort() leaves when std runs the passes with alg.
PassesWith(alg) ==
    LET passes == SortLoop(<<trail[1]>>, settings, 1, alg)
    IN passes[Len(passes)]

\* C15: the passes of sort(), one stable sort per criterion in declared
\* order, leave the index list that one stable sort of the list as built
\* leaves with the composite comparator.
C15_PassesEqualComposite ==
    phase = "sorted" =>
        \A alg \in SortAlgorithms :
            list = PassesWith(alg) =>
                Indexes(list) = Indexes(CompositeSort(trail[1], alg))

\* C16: a Not, of a condition or of a query condition, returns the negation
\* of the boolean of its child and the error of its child unchanged, never
\* a boolean when the child fails.
C16_NotNegates ==
    (Called /\ RootOp = "Not") =>
        /\ KidRes(1).ok => evalRes = Ok(~KidRes(1).val)
        /\ ~KidRes(1).ok => evalRes = KidRes(1)
        /\ KidsEntered = FirstKids(1)

\* Not over a Raw leaf whose pointer /j has no target in the document.
C16_Witness ==
    /\ CalledQuery
    /\ evalQuery = QNot(Raw("/j", Equal(SBool(FALSE))))
    /\ evalDoc = Doc(JFloat(1, 0, 1, 1), Absent)
    /\ evalRes = Err(InvalidPointer("/j", Doc(JFloat(1, 0, 1, 1), Absent)))

\* C17: a number resolved from a document and a numeric query constant
\* written with the same literal get the same variant, Int when the number
\* has no fraction and Float otherwise.
C17_SameVariantForSameNumber ==
    (numDoc # NoScalar /\ numConst # NoScalar) =>
        /\ numDoc.t = numConst.t
        /\ numDoc.t = (IF AsF64(numLit)[4] = 0 THEN "Int" ELSE "Float")

\* A sort specification is given on the command line, inline or as a file.
SortGiven == opt.raw_sort.some \/ opt.sort.some

\* C18: when a sort specification is given, nothing is written to standard
\* output while the input lines are read, and the sorted order is computed
\* once, at the end of the input, with no add after it.
C18_NoOutputBeforeLastLine ==
    /\ []((SortGiven /\ pc = "loop") => stdout = << >>)
    /\ [](sorter = "Moved" => pc = "done")
    /\ [][sorter = "Moved" => (added' = added /\ list' = list)]_vars

\* The same with the sorter that main() built as the precondition.
C18_SorterHoldsOutput ==
    /\ []((use_sort /\ pc = "loop") => stdout = << >>)
    /\ [](sorter = "Moved" => pc = "done")
    /\ [][sorter = "Moved" => (added' = added /\ list' = list)]_vars

\* Both sources of the query, or both sources of the sort, are given.
BothSources ==
    \/ opt.raw_query.some /\ opt.query.some
    \/ opt.raw_sort.some /\ opt.sort.some

\* C19: with both sources of one specification given, startup fails with
\* InvalidOption before a line is read: main() never reaches its loop.
C19_BothSourcesRejected ==
    (BothSources /\ pc # "validate") =>
        /\ pc \notin {"loop", "done"}
        /\ pc = "panicked" => (panic = InvalidOption /\ lineCount = 0)

\* The part of C19 that is about the query.
C19_BothQuerySourcesRejected ==
    (opt.raw_query.some /\ opt.query.some /\ pc # "validate") =>
        (pc = "panicked" /\ panic = InvalidOption /\ lineCount = 0)

\* The place in l of the record added as number idx.
PosIn(l, idx) == CHOOSE k \in 1..Len(l) : l[k].index = idx

\* No record of l is followed, anywhere later in l, by a record with a
\* greater key of criterion k.
NonIncreasing(l, k) ==
    \A a, b \in 1..Len(l) :
        a < b => PairCmp(l[a].pairs[k], l[b].pairs[k]) # "Less"

\* The same of neighbours only.
NeighboursNonIncreasing(l, k) ==
    \A a \in 1..(Len(l) - 1) :
        PairCmp(l[a].pairs[k], l[a + 1].pairs[k]) # "Less"

\* Records with Equal keys of criterion k are in post in the order of pre.
EqualKeysKeepOrder(pre, post, k) ==
    \A a, b \in 1..Len(pre) :
        (a < b /\ PairCmp(pre[a].pairs[k], pre[b].pairs[k]) = "Equal") =>
            PosIn(post, pre[a].index) < PosIn(post, pre[b].index)

DescPasses == {k \in 1..Len(settings) : settings[k].order = "Desc"}

ExampleDocs ==
    << Doc(JInt(1, 0, 10), Absent), Doc(JInt(1, 0, 5), Absent),
       Doc(JInt(1, 0, 20), Absent), Doc(N0, Absent) >>

IsExample ==
    /\ settings = << [pointer |-> "/i", order |-> "Desc"] >>
    /\ added = ExampleDocs

\* C20: after the pass of a descending criterion the keys of that criterion
\* are non-increasing along the list, records with Equal keys are in the
\* order they had before the pass, and the records with i = 10, 5, 20, 0
\* sorted by /i desc come out as [2,0,1,3].
C20_DescendingPass ==
    phase = "sorted" =>
        /\ \A k \in DescPasses :
              /\ NonIncreasing(trail[k + 1], k)
              /\ EqualKeysKeepOrder(trail[k], trail[k + 1], k)
        /\ IsExample => Indexes(list) = <<2, 0, 1, 3>>

\* The parts of C20 that do not need a transitive comparator.
C20_StableAndExample ==
    phase = "sorted" =>
        /\ \A k \in DescPasses :
              /\ NeighboursNonIncreasing(trail[k + 1], k)
              /\ EqualKeysKeepOrder(trail[k], trail[k + 1], k)
        /\ IsExample => Indexes(list) = <<2, 0, 1, 3>>

C20_ExampleReached == phase = "sorted" /\ IsExample

(***************************************************************************)
(* Properties of the order as a whole.                                     *)
(***************************************************************************)
Reverse(ord) ==
    CASE ord = "Less" -> "Greater" [] ord = "Greater" -> "Less"
      [] OTHER -> ord

\* a <= b under cmp.
CmpLe(a, b) == PairCmp(a, b) # "Greater"

\* C21: cmp is a consistent total order: cmp(a,a) is Equal, cmp(a,b) is the
\* reverse of cmp(b,a), cmp(a,b) is Equal exactly when a == b, and a <= b
\* with b <= c gives a <= c for every third value c.
C21_TotalOrder ==
    cmpOrd # "none" =>
        /\ PairCmp(cmpA, cmpA) = "Equal"
        /\ PairCmp(cmpB, cmpA) = Reverse(cmpOrd)
        /\ (cmpOrd = "Equal") <=> PairEq(cmpA, cmpB)
        /\ \A c \in PairValues :
              (CmpLe(cmpA, cmpB) /\ CmpLe(cmpB, c)) => CmpLe(cmpA, c)

\* The parts of C21 other than transitivity.
C21_ReflexiveAntisymmetric ==
    cmpOrd # "none" =>
        /\ PairCmp(cmpA, cmpA) = "Equal"
        /\ PairCmp(cmpB, cmpA) = Reverse(cmpOrd)
        /\ (cmpOrd = "Equal") <=> PairEq(cmpA, cmpB)

\* C22: after n calls of add and the sort, indexes() holds every number of
\* 0..n-1 exactly once, each slot holds the keys extracted from the document
\* added under its index, as it did before the sort, and the criteria are
\* the ones the sorter was built with.
C22_SortOnlyReorders ==
    /\ [](phase = "sorted" =>
            /\ Len(list) = Len(added)
            /\ \A n \in 0..(Len(added) - 1) :
                  Cardinality({k \in 1..Len(list) : list[k].index = n}) = 1
            /\ \A k \in 1..Len(list) :
                  /\ list[k].index \in 0..(Len(added) - 1)
                  /\ list[k].pairs =
                        [c \in 1..Len(settings) |->
                            PairKey(added[list[k].index + 1], settings[c])]
                  /\ list[k] \in {trail[1][j] : j \in 1..Len(trail[1])})
    /\ [][settings' = settings /\ (phase' = "sorted" => added' = added)]_vars

\* Three documents were added and the sort moved the last one to the front.
C22_Witness ==
    /\ phase = "sorted"
    /\ Len(added) = 3
    /\ Indexes(list) = <<2, 0, 1>>

\* C23: an Equal, GreaterThan or LessThan whose value and whose candidate
\* are of the same variant, whichever of Null, Bool, Int, Float and String,
\* returns a boolean.
C23_SameVariantIsBoolean ==
    ( /\ CalledCondition
      /\ evalCond.op \in {"Equal", "GreaterThan", "LessThan"}
      /\ evalCond.v.t \in ScalarVariants
      /\ evalCond.v.t = evalValue.t ) =>
        evalRes.ok

\* The same of the variants other than Null, and of Equal on Null.
C23_SameVariantButNullOrdering ==
    ( /\ CalledCondition
      /\ evalCond.op \in {"Equal", "GreaterThan", "LessThan"}
      /\ evalCond.v.t \in ScalarVariants
      /\ evalCond.v.t = evalValue.t
      /\ (evalCond.v.t = "Null" => evalCond.op = "Equal") ) =>
        evalRes.ok

\* Thread t tests a pattern that does not compile.
InvalidJob(t) == ~RegexValid(job[t].pattern)

\* C24: a Regex test of a pattern that does not compile returns
\* InvalidRegex, changes nothing in the cache while it holds the lock and
\* gives the lock back; no invalid pattern is ever in the cache, so a later
\* test of the same pattern fails again; and a test of a valid pattern
\* returns what it returns in a fresh process.
C24_InvalidRegexLeavesCache ==
    /\ [](\A t \in Threads :
            /\ (tpc[t] = "done" /\ InvalidJob(t)) =>
                  tres[t] = Err(InvalidRegex(job[t].pattern))
            /\ (tpc[t] = "done" /\ ~InvalidJob(t)) =>
                  tres[t] = Ok(IsMatch(Compile(job[t].pattern), job[t].value))
            /\ tpc[t] = "done" => mutex # t)
    /\ [](\A pattern \in DOMAIN cache :
            RegexValid(pattern) /\ cache[pattern] = Compile(pattern))
    /\ [][\A t \in Threads :
            (mutex = t /\ InvalidJob(t)) => cache' = cache]_vars

\* Two tests of the invalid pattern, one after the other, both failed, and
\* both called Regex::new.
C24_Witness ==
    /\ \A t \in Threads :
          /\ tpc[t] = "done"
          /\ job[t].pattern = <<OpenParen>>
          /\ tres[t] = Err(InvalidRegex(<<OpenParen>>))
    /\ compiles[<<OpenParen>>] = NumThreads
    /\ DOMAIN cache = {}
    /\ mutex = 0

\* The records added as numbers a and b have Equal keys on every criterion.
EqualOnEveryCriterion(a, b) ==
    \A c \in 1..Len(settings) :
        PairCmp(PairKey(added[a + 1], settings[c]),
                PairKey(added[b + 1], settings[c])) = "Equal"

InsertionOrder(n) == [k \in 1..n |-> k - 1]

C25_NoCriteriaReached ==
    phase = "sorted" /\ settings = << >> /\ Len(added) = 3

\* The integer a literal without fraction denotes, as sign, multiple of
\* 2^31 and rest; and the integer an i32 holds, in the same form.
IntValue(lit) ==
    IF lit.p[3] = 0 /\ lit.p[4] = 0 THEN <<1, 0, 0>>
    ELSE <<lit.p[2], lit.p[3], lit.p[4]>>

I32Value(n) ==
    IF n >= 0 THEN <<1, 0, n>>
    ELSE IF n = -I32Max - 1 THEN <<-1, 1, 0>>
    ELSE <<-1, 0, -n>>

IntegerLiterals == {lit \in NumberLiterals : lit.p[5] = 0}

\* The constant of a query written with the literal lit.
ConstantOf(lit) == ValueFrom(RawNumber(DeserializeF64(lit)))

\* C26: the Int made of an integer document value, and of an integer-valued
\* query constant, holds the integer the literal denotes, and no constant
\* that denotes another integer is Equal to the document value.
C26_IntConversionKeepsValue ==
    /\ (numDoc.t = "Int") => I32Value(numDoc.p[1]) = IntValue(numLit)
    /\ (numConst.t = "Int") => I32Value(numConst.p[1]) = IntValue(numLit)
    /\ (numDoc.t = "Int") =>
          \A lit \in IntegerLiterals :
              CondEqual(Equal(ConstantOf(lit)), numDoc) = Ok(TRUE) =>
                  IntValue(lit) = IntValue(numLit)

\* The same of the literals of a magnitude below 2^31.
C26_InRangeKeepsValue ==
    (IntValue(numLit)[2] = 0) =>
        /\ (numDoc.t = "Int") => I32Value(numDoc.p[1]) = IntValue(numLit)
        /\ (numConst.t = "Int") => I32Value(numConst.p[1]) = IntValue(numLit)
        /\ (numDoc.t = "Int") =>
              \A lit \in IntegerLiterals :
                  (IntValue(lit)[2] = 0 /\ CondEqual(Equal(ConstantOf(lit)), numDoc) = Ok(TRUE))
                      => IntValue(lit) = IntValue(numLit)

\* The selector accepts the line.
Accepts(l) == Select(selector, l, [cache |-> EmptyCache, trace |-> << >>]).res.ok

====
